---- MODULE Spec2Model ----
(***************************************************************************)
(* Model of the Pangolin Ingress Controller reconciliation engine          *)
(* (internal/controller/ingress_controller.go, internal/util/naming.go).   *)
(*                                                                         *)
(* One Ingress is reconciled against a store of PangolinResources and a    *)
(* set of PangolinTunnels.  A Reconcile pass is one atomic action; the     *)
(* environment edits the Ingress and the tunnel set between passes.        *)
(* Strings are TLA+ strings, so prefix tests, host splitting, name         *)
(* sanitising and the priority of a path are computed as the code does.    *)
(***************************************************************************)
EXTENDS Integers, Sequences, FiniteSets, TLC

(***************************************************************************)
(* Bounds of the model.                                                    *)
(***************************************************************************)
\* longest rule list the environment writes into the Ingress
MaxRules == 2

(***************************************************************************)
(* String helpers (package strings).                                       *)
(***************************************************************************)
Char(s, i) == SubSeq(s, i, i)

HasPrefix(s, p) == Len(s) >= Len(p) /\ SubSeq(s, 1, Len(p)) = p

TrimPrefix(s, p) == IF HasPrefix(s, p) THEN SubSeq(s, Len(p) + 1, Len(s)) ELSE s

Contains(s, sub) ==
  \E i \in 1..(Len(s) - Len(sub) + 1) : SubSeq(s, i, i + Len(sub) - 1) = sub

UpperChars == "ABCDEFGHIJKLMNOPQRSTUVWXYZ"
LowerChars == "abcdefghijklmnopqrstuvwxyz"
DigitChars == "0123456789"

LowerChar(c) ==
  IF \E i \in 1..26 : Char(UpperChars, i) = c
  THEN Char(LowerChars, CHOOSE i \in 1..26 : Char(UpperChars, i) = c)
  ELSE c

\* character by character; the string is halved to keep the evaluation shallow
RECURSIVE ToLower(_)
ToLower(s) ==
  IF s = "" THEN ""
  ELSE IF Len(s) = 1 THEN LowerChar(s)
  ELSE ToLower(SubSeq(s, 1, Len(s) \div 2)) \o ToLower(SubSeq(s, Len(s) \div 2 + 1, Len(s)))

IsLowerAlnum(c) == Contains(LowerChars, c) \/ Contains(DigitChars, c)

\* strings.Trim(name, "-")
RECURSIVE TrimHyphens(_)
TrimHyphens(s) ==
  IF s = "" THEN ""
  ELSE IF Char(s, 1) = "-" THEN TrimHyphens(SubSeq(s, 2, Len(s)))
  ELSE IF Char(s, Len(s)) = "-" THEN TrimHyphens(SubSeq(s, 1, Len(s) - 1))
  ELSE s

\* strings.ReplaceAll(name, "--", "-"): non-overlapping, left to right
RECURSIVE ReplaceDoubleHyphen(_)
ReplaceDoubleHyphen(s) ==
  LET at    == {i \in 1..(Len(s) - 1) : SubSeq(s, i, i + 1) = "--"}
      first == CHOOSE i \in at : \A j \in at : i <= j
  IN  IF at = {} THEN s
      ELSE SubSeq(s, 1, first - 1) \o "-" \o ReplaceDoubleHyphen(SubSeq(s, first + 2, Len(s)))

\* for strings.Contains(name, "--") { name = strings.ReplaceAll(...) }
RECURSIVE CollapseHyphens(_)
CollapseHyphens(s) ==
  IF Contains(s, "--") THEN CollapseHyphens(ReplaceDoubleHyphen(s)) ELSE s

RECURSIVE ReplaceInvalid(_)
ReplaceInvalid(s) ==
  IF s = "" THEN ""
  ELSE IF Len(s) = 1 THEN (IF IsLowerAlnum(s) \/ s = "-" THEN s ELSE "-")
  ELSE ReplaceInvalid(SubSeq(s, 1, Len(s) \div 2))
       \o ReplaceInvalid(SubSeq(s, Len(s) \div 2 + 1, Len(s)))

(***************************************************************************)
(* internal/util/naming.go                                                 *)
(***************************************************************************)
NamePrefix == "pic"
MaxNameLength == 63

sanitizeName(name) == CollapseHyphens(TrimHyphens(ReplaceInvalid(ToLower(name))))

\* hex.EncodeToString(sha256.Sum256(hashInput)[:4]).  SHA-256 is not computed
\* in the model: the table holds the real digests of the hash inputs the
\* model uses.  Truncated to 4 bytes the digest is not injective: the first
\* two rows are a real colliding pair, and so are the rows of
\* default/my.app/app130943.example.com and default/my-app/app14850.example.com.
ShortHash(hashInput) ==
  CASE hashInput = "default/myapp/app23742.example.com"
           -> "0696632f"
    [] hashInput = "default/myapp/app68383.example.com"
           -> "0696632f"
    [] hashInput = "default/myapp/api.example.com"
           -> "6e5fd5c9"
    [] hashInput = "default/myapp/*.example.com"
           -> "9f622314"
    [] hashInput = "default/myapp/10.0.0.1"
           -> "5bb6f97f"
    [] hashInput = "default/myapp/"
           -> "6d6236d7"
    [] hashInput = "default/myapp/shop.example.co.uk"
           -> "1880895d"
    [] hashInput = "default/my.app/app23742.example.com"
           -> "b4896480"
    [] hashInput = "default/my.app/api.example.com"
           -> "a37e3932"
    [] hashInput = "default/my.app/shop.example.co.uk"
           -> "7d177885"
    [] hashInput = "default/my.app/"
           -> "01bbb333"
    [] hashInput = "default/a/app23742.example.com"
           -> "c094d0d9"
    [] hashInput = "default/a/api.example.com"
           -> "2162771b"
    [] hashInput = "default/a/shop.example.co.uk"
           -> "3798c915"
    [] hashInput = "default/a/"
           -> "f1ddda18"
    [] hashInput = "default/storefront-checkout-payments-gateway-prod-eu1-canary/app23742.example.com"
           -> "50a06144"
    [] hashInput = "default/storefront-checkout-payments-gateway-prod-eu1-canary/api.example.com"
           -> "8176bb4e"
    [] hashInput = "default/storefront-checkout-payments-gateway-prod-eu1-canary/shop.example.co.uk"
           -> "a729e231"
    [] hashInput = "default/storefront-checkout-payments-gateway-prod-eu1-canary/"
           -> "a977d061"
    [] hashInput = "default/shop.frontend.payments.internal.eu-west-1.example.services/app23742.example.com"
           -> "8003867c"
    [] hashInput = "default/shop.frontend.payments.internal.eu-west-1.example.services/api.example.com"
           -> "47ef2374"
    [] hashInput = "default/shop.frontend.payments.internal.eu-west-1.example.services/shop.example.co.uk"
           -> "da1725bf"
    [] hashInput = "default/shop.frontend.payments.internal.eu-west-1.example.services/"
           -> "dc23fb61"
    [] hashInput = "default/storefrontcheckoutpaymentsgatewayinternalv2canaryblue01/app23742.example.com"
           -> "340c02e5"
    [] hashInput = "default/storefrontcheckoutpaymentsgatewayinternalv2canaryblue01/api.example.com"
           -> "82ac03b1"
    [] hashInput = "default/storefrontcheckoutpaymentsgatewayinternalv2canaryblue01/shop.example.co.uk"
           -> "5f41c0a3"
    [] hashInput = "default/storefrontcheckoutpaymentsgatewayinternalv2canaryblue01/"
           -> "654c238f"
    [] hashInput = "team-payments-production-eu-west-1-blue-canary01/myapp/app23742.example.com"
           -> "cccb1591"
    [] hashInput = "team-payments-production-eu-west-1-blue-canary01/myapp/api.example.com"
           -> "cf16c029"
    [] hashInput = "team-payments-production-eu-west-1-blue-canary01/myapp/shop.example.co.uk"
           -> "5ed6b3be"
    [] hashInput = "team-payments-production-eu-west-1-blue-canary01/myapp/"
           -> "1edca4b9"
    [] hashInput = "team-payments-production-eu-west-1-blue-canary01/my.app/app23742.example.com"
           -> "939a0fdd"
    [] hashInput = "team-payments-production-eu-west-1-blue-canary01/my.app/api.example.com"
           -> "a94c2bbf"
    [] hashInput = "team-payments-production-eu-west-1-blue-canary01/my.app/shop.example.co.uk"
           -> "10202a5b"
    [] hashInput = "team-payments-production-eu-west-1-blue-canary01/my.app/"
           -> "f615e9a5"
    [] hashInput = "team-payments-production-eu-west-1-blue-canary01/a/app23742.example.com"
           -> "27ce0b17"
    [] hashInput = "team-payments-production-eu-west-1-blue-canary01/a/api.example.com"
           -> "e18f6da6"
    [] hashInput = "team-payments-production-eu-west-1-blue-canary01/a/shop.example.co.uk"
           -> "b3a5b290"
    [] hashInput = "team-payments-production-eu-west-1-blue-canary01/a/"
           -> "e8e34a1b"
    [] hashInput = "team-payments-production-eu-west-1-blue-canary01/storefront-checkout-payments-gateway-prod-eu1-canary/app23742.example.com"
           -> "ab6463aa"
    [] hashInput = "team-payments-production-eu-west-1-blue-canary01/storefront-checkout-payments-gateway-prod-eu1-canary/api.example.com"
           -> "c7a6f86d"
    [] hashInput = "team-payments-production-eu-west-1-blue-canary01/storefront-checkout-payments-gateway-prod-eu1-canary/shop.example.co.uk"
           -> "052f8782"
    [] hashInput = "team-payments-production-eu-west-1-blue-canary01/storefront-checkout-payments-gateway-prod-eu1-canary/"
           -> "f68a5eda"
    [] hashInput = "team-payments-production-eu-west-1-blue-canary01/shop.frontend.payments.internal.eu-west-1.example.services/app23742.example.com"
           -> "e0414998"
    [] hashInput = "team-payments-production-eu-west-1-blue-canary01/shop.frontend.payments.internal.eu-west-1.example.services/api.example.com"
           -> "c5b1df7b"
    [] hashInput = "team-payments-production-eu-west-1-blue-canary01/shop.frontend.payments.internal.eu-west-1.example.services/shop.example.co.uk"
           -> "be1cab3c"
    [] hashInput = "team-payments-production-eu-west-1-blue-canary01/shop.frontend.payments.internal.eu-west-1.example.services/"
           -> "17786e9e"
    [] hashInput = "team-payments-production-eu-west-1-blue-canary01/storefrontcheckoutpaymentsgatewayinternalv2canaryblue01/app23742.example.com"
           -> "9345aa43"
    [] hashInput = "team-payments-production-eu-west-1-blue-canary01/storefrontcheckoutpaymentsgatewayinternalv2canaryblue01/api.example.com"
           -> "3d38d88b"
    [] hashInput = "team-payments-production-eu-west-1-blue-canary01/storefrontcheckoutpaymentsgatewayinternalv2canaryblue01/shop.example.co.uk"
           -> "2c20e908"
    [] hashInput = "team-payments-production-eu-west-1-blue-canary01/storefrontcheckoutpaymentsgatewayinternalv2canaryblue01/"
           -> "16ac2d36"
    [] hashInput = "a23456789-b23456789-c23456789-d23456789-e23456789-f23456789-g23/myapp/app23742.example.com"
           -> "41fea2fe"
    [] hashInput = "a23456789-b23456789-c23456789-d23456789-e23456789-f23456789-g23/myapp/api.example.com"
           -> "a7a7cd53"
    [] hashInput = "a23456789-b23456789-c23456789-d23456789-e23456789-f23456789-g23/myapp/shop.example.co.uk"
           -> "31cbb823"
    [] hashInput = "a23456789-b23456789-c23456789-d23456789-e23456789-f23456789-g23/myapp/"
           -> "af9a1d42"
    [] hashInput = "a23456789-b23456789-c23456789-d23456789-e23456789-f23456789-g23/my.app/app23742.example.com"
           -> "e240b3e4"
    [] hashInput = "a23456789-b23456789-c23456789-d23456789-e23456789-f23456789-g23/my.app/api.example.com"
           -> "a77a0c14"
    [] hashInput = "a23456789-b23456789-c23456789-d23456789-e23456789-f23456789-g23/my.app/shop.example.co.uk"
           -> "570365af"
    [] hashInput = "a23456789-b23456789-c23456789-d23456789-e23456789-f23456789-g23/my.app/"
           -> "42d88516"
    [] hashInput = "a23456789-b23456789-c23456789-d23456789-e23456789-f23456789-g23/a/app23742.example.com"
           -> "21657a9d"
    [] hashInput = "a23456789-b23456789-c23456789-d23456789-e23456789-f23456789-g23/a/api.example.com"
           -> "71e08239"
    [] hashInput = "a23456789-b23456789-c23456789-d23456789-e23456789-f23456789-g23/a/shop.example.co.uk"
           -> "16b67dce"
    [] hashInput = "a23456789-b23456789-c23456789-d23456789-e23456789-f23456789-g23/a/"
           -> "e08349a9"
    [] hashInput = "a23456789-b23456789-c23456789-d23456789-e23456789-f23456789-g23/storefront-checkout-payments-gateway-prod-eu1-canary/app23742.example.com"
           -> "1addcf30"
    [] hashInput = "a23456789-b23456789-c23456789-d23456789-e23456789-f23456789-g23/storefront-checkout-payments-gateway-prod-eu1-canary/api.example.com"
           -> "6ebc9ebd"
    [] hashInput = "a23456789-b23456789-c23456789-d23456789-e23456789-f23456789-g23/storefront-checkout-payments-gateway-prod-eu1-canary/shop.example.co.uk"
           -> "38e2cc43"
    [] hashInput = "a23456789-b23456789-c23456789-d23456789-e23456789-f23456789-g23/storefront-checkout-payments-gateway-prod-eu1-canary/"
           -> "dbe202d8"
    [] hashInput = "a23456789-b23456789-c23456789-d23456789-e23456789-f23456789-g23/shop.frontend.payments.internal.eu-west-1.example.services/app23742.example.com"
           -> "78936cb8"
    [] hashInput = "a23456789-b23456789-c23456789-d23456789-e23456789-f23456789-g23/shop.frontend.payments.internal.eu-west-1.example.services/api.example.com"
           -> "424bc638"
    [] hashInput = "a23456789-b23456789-c23456789-d23456789-e23456789-f23456789-g23/shop.frontend.payments.internal.eu-west-1.example.services/shop.example.co.uk"
           -> "7917b87b"
    [] hashInput = "a23456789-b23456789-c23456789-d23456789-e23456789-f23456789-g23/shop.frontend.payments.internal.eu-west-1.example.services/"
           -> "554a96ae"
    [] hashInput = "a23456789-b23456789-c23456789-d23456789-e23456789-f23456789-g23/storefrontcheckoutpaymentsgatewayinternalv2canaryblue01/app23742.example.com"
           -> "1d8f2b01"
    [] hashInput = "a23456789-b23456789-c23456789-d23456789-e23456789-f23456789-g23/storefrontcheckoutpaymentsgatewayinternalv2canaryblue01/api.example.com"
           -> "4afc7efa"
    [] hashInput = "a23456789-b23456789-c23456789-d23456789-e23456789-f23456789-g23/storefrontcheckoutpaymentsgatewayinternalv2canaryblue01/shop.example.co.uk"
           -> "aa579e00"
    [] hashInput = "a23456789-b23456789-c23456789-d23456789-e23456789-f23456789-g23/storefrontcheckoutpaymentsgatewayinternalv2canaryblue01/"
           -> "0b9eba53"

    [] hashInput = "default/my.app/app130943.example.com"
           -> "8bcccbb5"
    [] hashInput = "default/my-app/app14850.example.com"
           -> "8bcccbb5"
    [] hashInput = "default/my-app/api.example.com"
           -> "17927418"
    [] hashInput = "team-payments-production-eu-west-1-blue-canary012/myapp/app23742.example.com"
           -> "f46122d8"
    [] hashInput = "team-payments-production-eu-west-1-blue-canary012/myapp/api.example.com"
           -> "d6378fbc"
    [] hashInput = "team-payments-production-eu-west-1-blue-canary012/myapp/shop.example.co.uk"
           -> "8b26c15f"
    [] hashInput = "team-payments-production-eu-west-1-blue-canary012/myapp/"
           -> "08331484"
    [] hashInput = "team-payments-production-eu-west-1-blue-canary012/my.app/app23742.example.com"
           -> "486d83ef"
    [] hashInput = "team-payments-production-eu-west-1-blue-canary012/my.app/api.example.com"
           -> "72dc6ac5"
    [] hashInput = "team-payments-production-eu-west-1-blue-canary012/my.app/shop.example.co.uk"
           -> "25764090"
    [] hashInput = "team-payments-production-eu-west-1-blue-canary012/my.app/"
           -> "150d8966"
    [] hashInput = "team-payments-production-eu-west-1-blue-canary012/a/app23742.example.com"
           -> "a4d20c71"
    [] hashInput = "team-payments-production-eu-west-1-blue-canary012/a/api.example.com"
           -> "52f17dca"
    [] hashInput = "team-payments-production-eu-west-1-blue-canary012/a/shop.example.co.uk"
           -> "5371a712"
    [] hashInput = "team-payments-production-eu-west-1-blue-canary012/a/"
           -> "1d644d62"
    [] hashInput = "team-payments-production-eu-west-1-blue-canary012/storefront-checkout-payments-gateway-prod-eu1-canary/app23742.example.com"
           -> "e348a9c6"
    [] hashInput = "team-payments-production-eu-west-1-blue-canary012/storefront-checkout-payments-gateway-prod-eu1-canary/api.example.com"
           -> "37132744"
    [] hashInput = "team-payments-production-eu-west-1-blue-canary012/storefront-checkout-payments-gateway-prod-eu1-canary/shop.example.co.uk"
           -> "0dd0c22e"
    [] hashInput = "team-payments-production-eu-west-1-blue-canary012/storefront-checkout-payments-gateway-prod-eu1-canary/"
           -> "37c8e64d"
    [] hashInput = "team-payments-production-eu-west-1-blue-canary012/shop.frontend.payments.internal.eu-west-1.example.services/app23742.example.com"
           -> "f6d8e514"
    [] hashInput = "team-payments-production-eu-west-1-blue-canary012/shop.frontend.payments.internal.eu-west-1.example.services/api.example.com"
           -> "e6691f84"
    [] hashInput = "team-payments-production-eu-west-1-blue-canary012/shop.frontend.payments.internal.eu-west-1.example.services/shop.example.co.uk"
           -> "ad942e0a"
    [] hashInput = "team-payments-production-eu-west-1-blue-canary012/shop.frontend.payments.internal.eu-west-1.example.services/"
           -> "9e8733c6"
    [] hashInput = "team-payments-production-eu-west-1-blue-canary012/storefrontcheckoutpaymentsgatewayinternalv2canaryblue01/app23742.example.com"
           -> "29bd4cb1"
    [] hashInput = "team-payments-production-eu-west-1-blue-canary012/storefrontcheckoutpaymentsgatewayinternalv2canaryblue01/api.example.com"
           -> "ee7f360b"
    [] hashInput = "team-payments-production-eu-west-1-blue-canary012/storefrontcheckoutpaymentsgatewayinternalv2canaryblue01/shop.example.co.uk"
           -> "23e74ceb"
    [] hashInput = "team-payments-production-eu-west-1-blue-canary012/storefrontcheckoutpaymentsgatewayinternalv2canaryblue01/"
           -> "5f97930d"
\* a GenerateName that does not truncate
GenerateNameUntruncated(namespace, ingressName, host) ==
  sanitizeName(NamePrefix \o "-" \o namespace \o "-" \o ingressName
               \o "-" \o ShortHash(namespace \o "/" \o ingressName \o "/" \o host))

\* a GenerateName that cuts the sanitized name at the maximum length
GenerateNameCut(namespace, ingressName, host) ==
  LET name == GenerateNameUntruncated(namespace, ingressName, host)
  IN  IF Len(name) > MaxNameLength THEN SubSeq(name, 1, MaxNameLength) ELSE name

\* a GenerateName that keeps the head of the sanitized name, whatever the
\* length of the namespace, and the hash
GenerateNameHeadCut(namespace, ingressName, host) ==
  LET name == GenerateNameUntruncated(namespace, ingressName, host)
      shortHash == ShortHash(namespace \o "/" \o ingressName \o "/" \o host)
  IN  IF Len(name) > MaxNameLength
      THEN SubSeq(name, 1, MaxNameLength - Len(shortHash) - 1) \o "-" \o shortHash
      ELSE name

GenerateName(namespace, ingressName, host) ==
  LET hashInput == namespace \o "/" \o ingressName \o "/" \o host
      shortHash == ShortHash(hashInput)
      name      == sanitizeName(NamePrefix \o "-" \o namespace \o "-" \o ingressName
                                \o "-" \o shortHash)
      prefixLen    == Len(NamePrefix) + 1 + Len(namespace) + 1
      suffixLen    == Len(shortHash) + 1
      availableLen == MaxNameLength - prefixLen - suffixLen
      truncatedIngress == IF Len(ingressName) > availableLen
                          THEN SubSeq(ingressName, 1, availableLen)
                          ELSE ingressName
  IN  IF Len(name) > MaxNameLength
      THEN IF availableLen > 0
           THEN NamePrefix \o "-" \o namespace \o "-" \o truncatedIngress \o "-" \o shortHash
           ELSE NamePrefix \o "-" \o shortHash
      ELSE name


(***************************************************************************)
(* util.SplitHost, after the host splitting rules of the design notes      *)
(* (unnamed/part_001, section 2.4): a host with a wildcard and an IP       *)
(* address are errors; the domain is the registrable domain under a public *)
(* suffix and the subdomain is what precedes it.                           *)
(***************************************************************************)
IsIPLiteral(host) ==
  /\ host # ""
  /\ \A i \in 1..Len(host) : Contains(DigitChars, Char(host, i)) \/ Char(host, i) = "."

\* the registrable domain: a public suffix and the one label before it
SplitHost(host) ==
  LET PublicSuffixes == {"com", "co.uk"}
      starts == {i \in 1..Len(host) :
                   /\ i = 1 \/ Char(host, i - 1) = "."
                   /\ \E sfx \in PublicSuffixes :
                        /\ Len(host) - i + 1 > Len(sfx) + 1
                        /\ SubSeq(host, Len(host) - Len(sfx), Len(host)) = "." \o sfx
                        /\ ~Contains(SubSeq(host, i, Len(host) - Len(sfx) - 1), ".")}
      at     == CHOOSE i \in starts : \A j \in starts : i <= j
  IN  IF Contains(host, "*") \/ IsIPLiteral(host) \/ starts = {}
      THEN [err |-> TRUE, subdomain |-> "", domain |-> ""]
      ELSE [err |-> FALSE,
            subdomain |-> IF at = 1 THEN "" ELSE SubSeq(host, 1, at - 2),
            domain |-> SubSeq(host, at, Len(host))]

(***************************************************************************)
(* The hosts, paths and rules the environment writes.                      *)
(***************************************************************************)
IngressNamespace == "default"
IngressName      == "myapp"
IngressUID       == "uid-1"
IngressKeys      == {<<IngressNamespace, IngressName>>}

HostA == "app23742.example.com"
HostB == "api.example.com"
\* ShortHash of default/myapp/HostC is that of default/myapp/HostA
HostC == "app68383.example.com"
HostWildcard == "*.example.com"
HostIP       == "10.0.0.1"

Service(name, port) == <<[Name |-> name, Port |-> port]>>

PathRoot  == [Path |-> "/",    PathType |-> <<"Prefix">>, Service |-> Service("web", 80)]
PathApi   == [Path |-> "/api", PathType |-> <<"Exact">>,  Service |-> Service("api", 8080)]
PathGhost == [Path |-> "/e",   PathType |-> <<>>,         Service |-> Service("ghost", 0)]
\* a path whose backend is a resource reference, not a service
PathRes   == [Path |-> "/r",   PathType |-> <<"ImplementationSpecific">>, Service |-> <<>>]

Rule(host, paths) == [Host |-> host, HTTP |-> <<[Paths |-> paths]>>]

RuleChoices ==
  {Rule(HostA, <<PathRoot>>), Rule(HostA, <<PathApi>>), Rule(HostB, <<PathRoot>>),
   Rule(HostC, <<PathRoot>>), Rule("", <<PathGhost>>), Rule(HostWildcard, <<PathRoot>>),
   Rule(HostIP, <<PathRoot>>), Rule(HostB, <<PathRes>>)}

HostUniverse == {r.Host : r \in RuleChoices}

(***************************************************************************)
(* GenerateName and SplitHost of the hosts the model uses, evaluated once.  *)
(***************************************************************************)
NameTable  == [h \in HostUniverse |-> GenerateName(IngressNamespace, IngressName, h)]
SplitTable == [h \in HostUniverse |-> SplitHost(h)]

NameFor(namespace, ingressName, host) ==
  IF namespace = IngressNamespace /\ ingressName = IngressName /\ host \in HostUniverse
  THEN NameTable[host]
  ELSE GenerateName(namespace, ingressName, host)

SplitFor(host) == IF host \in HostUniverse THEN SplitTable[host] ELSE SplitHost(host)

(***************************************************************************)
(* internal/controller/ingress_controller.go: constants and configuration  *)
(***************************************************************************)
AnnotationEnabled     == "pangolin.ingress.k8s.io/enabled"
AnnotationTunnelName  == "pangolin.ingress.k8s.io/tunnel-name"
AnnotationDomainName  == "pangolin.ingress.k8s.io/domain-name"
AnnotationSubdomain   == "pangolin.ingress.k8s.io/subdomain"
AnnotationSSO         == "pangolin.ingress.k8s.io/sso"
AnnotationBlockAccess == "pangolin.ingress.k8s.io/block-access"
LabelIngressUID       == "pic.ingress.k8s.io/uid"
LabelIngressName      == "pic.ingress.k8s.io/name"
LabelIngressNamespace == "pic.ingress.k8s.io/namespace"
IngressClassPangolin  == "pangolin"
IngressClassPrefix    == "pangolin-"

\* r.Config: the documented defaults and the README's mapping example
ConfigDefaultTunnelName == "default"
ConfigTunnelMapping     == [suffix \in {"eu"} |-> "tunnel-eu"]
ConfigBackendScheme     == "http"

(***************************************************************************)
(* Objects.  A Go map is a function whose DOMAIN is the set of its keys;   *)
(* a nil pointer is the empty tuple and a set pointer a 1-tuple.           *)
(***************************************************************************)
NoAnnotations == [k \in {} |-> ""]
EmptyStore    == [k \in {} |-> ""]

Put(f, k, v) == [j \in DOMAIN f \cup {k} |-> IF j = k THEN v ELSE f[j]]
Remove(f, k) == [j \in DOMAIN f \ {k} |-> f[j]]

SeqPerms(S) ==
  {s \in [1..Cardinality(S) -> S] : \A i, j \in DOMAIN s : i # j => s[i] # s[j]}

\* The state of a pass: the store, the events and store writes so far, the
\* number of store calls made, and the call that fails (failAt, 0 for none).
\* Fails: the next store call is the one that fails; Tick: a store call is
\* made; Failed: the pass returns the error.
Fails(ps)  == ps.calls + 1 = ps.failAt
Tick(ps)   == [ps EXCEPT !.calls = @ + 1]
Failed(ps) == [ps EXCEPT !.err = TRUE]

\* r.Recorder.Event(ingress, type, reason, message); about is the value the
\* message is formatted from
Event(ps, type, reason, about) ==
  [ps EXCEPT !.events = Append(@, [Type |-> type, Reason |-> reason, About |-> about])]

\* a mutating store call, as issued: its verb and the object handed to it,
\* its number among the store calls of the pass, and the number of events
\* emitted before it
Op(ps, kind, obj) ==
  [ps EXCEPT !.ops = Append(@, [Kind |-> kind, Name |-> obj.Name, Obj |-> obj,
                                Call |-> ps.calls, Events |-> Len(ps.events)])]

KeyOf(obj) == <<obj.Namespace, obj.Name>>

\* client.MatchingLabels{LabelIngressUID: uid} within client.InNamespace(ns)
MatchesOwner(obj, ingress) ==
  /\ obj.Namespace = ingress.Namespace
  /\ LabelIngressUID \in DOMAIN obj.Labels
  /\ obj.Labels[LabelIngressUID] = ingress.UID

(***************************************************************************)
(* isManaged, resolveTunnel, validateTunnel                                *)
(***************************************************************************)
ClassNameOf(ingress) ==
  IF ingress.IngressClassName = <<>> THEN "" ELSE ingress.IngressClassName[1]

\* an isManaged that compares the enabled annotation as it is written
isManagedCaseSensitive(ingress) ==
  IF /\ AnnotationEnabled \in DOMAIN ingress.Annotations
     /\ ingress.Annotations[AnnotationEnabled] = "false"
  THEN FALSE
  ELSE LET className == ClassNameOf(ingress)
       IN  className = IngressClassPangolin \/ HasPrefix(className, IngressClassPrefix)

isManaged(ingress) ==
  IF /\ AnnotationEnabled \in DOMAIN ingress.Annotations
     /\ ToLower(ingress.Annotations[AnnotationEnabled]) = "false"
  THEN FALSE
  ELSE LET className == ClassNameOf(ingress)
       IN  className = IngressClassPangolin \/ HasPrefix(className, IngressClassPrefix)

\* a resolveTunnel that looks at the class before the annotation
resolveTunnelClassFirst(ingress) ==
  LET className == ClassNameOf(ingress)
      suffix    == TrimPrefix(className, IngressClassPrefix)
  IN  IF className = IngressClassPangolin
      THEN [err |-> FALSE, name |-> ConfigDefaultTunnelName]
      ELSE IF HasPrefix(className, IngressClassPrefix)
      THEN IF suffix \in DOMAIN ConfigTunnelMapping
           THEN [err |-> FALSE, name |-> ConfigTunnelMapping[suffix]]
           ELSE [err |-> FALSE, name |-> suffix]
      ELSE IF /\ AnnotationTunnelName \in DOMAIN ingress.Annotations
              /\ ingress.Annotations[AnnotationTunnelName] # ""
      THEN [err |-> FALSE, name |-> ingress.Annotations[AnnotationTunnelName]]
      ELSE [err |-> TRUE, name |-> ""]

\* a resolveTunnel that knows only the suffixes of the mapping
resolveTunnelMappedOnly(ingress) ==
  LET className == ClassNameOf(ingress)
      suffix    == TrimPrefix(className, IngressClassPrefix)
  IN  IF /\ AnnotationTunnelName \in DOMAIN ingress.Annotations
         /\ ingress.Annotations[AnnotationTunnelName] # ""
      THEN [err |-> FALSE, name |-> ingress.Annotations[AnnotationTunnelName]]
      ELSE IF className = IngressClassPangolin
      THEN [err |-> FALSE, name |-> ConfigDefaultTunnelName]
      ELSE IF HasPrefix(className, IngressClassPrefix) /\ suffix \in DOMAIN ConfigTunnelMapping
      THEN [err |-> FALSE, name |-> ConfigTunnelMapping[suffix]]
      ELSE [err |-> TRUE, name |-> ""]

resolveTunnel(ingress) ==
  LET className == ClassNameOf(ingress)
      suffix    == TrimPrefix(className, IngressClassPrefix)
  IN  IF /\ AnnotationTunnelName \in DOMAIN ingress.Annotations
         /\ ingress.Annotations[AnnotationTunnelName] # ""
      THEN [err |-> FALSE, name |-> ingress.Annotations[AnnotationTunnelName]]
      ELSE IF className = IngressClassPangolin
      THEN [err |-> FALSE, name |-> ConfigDefaultTunnelName]
      ELSE IF HasPrefix(className, IngressClassPrefix)
      THEN IF suffix \in DOMAIN ConfigTunnelMapping
           THEN [err |-> FALSE, name |-> ConfigTunnelMapping[suffix]]
           ELSE [err |-> FALSE, name |-> suffix]
      ELSE [err |-> TRUE, name |-> ""]

\* a validateTunnel that takes the tunnel to exist
validateTunnelAny(ps, tunnelList, tunnelName) ==
  IF Fails(ps)
  THEN [ps |-> Tick(ps), err |-> TRUE, namespace |-> ""]
  ELSE [ps |-> Tick(ps), err |-> FALSE, namespace |-> ""]

\* r.List(ctx, &tunnelList) over all namespaces, then the first item with the
\* name; tunnelList is the list as the store returned it
validateTunnel(ps, tunnelList, tunnelName) ==
  LET hits == {i \in DOMAIN tunnelList : tunnelList[i].Name = tunnelName}
      first == CHOOSE i \in hits : \A j \in hits : i <= j
  IN  IF Fails(ps)
      THEN [ps |-> Tick(ps), err |-> TRUE, namespace |-> ""]
      ELSE IF hits = {}
      THEN [ps |-> Tick(ps), err |-> TRUE, namespace |-> ""]
      ELSE [ps |-> Tick(ps), err |-> FALSE, namespace |-> tunnelList[first].Namespace]

(***************************************************************************)
(* buildDesiredPangolinResource, specChanged                               *)
(***************************************************************************)
\* a priority without the cap
PriorityOfUncapped(path) == 100 + Len(path) * 10

\* the priority of a target: longer paths first, capped
PriorityOf(path) ==
  LET priority == 100 + Len(path) * 10
  IN  IF priority > 1000 THEN 1000 ELSE priority

PathMatchTypeOf(pathType) ==
  IF pathType = <<>> THEN "prefix"
  ELSE CASE pathType[1] = "Exact"                  -> "exact"
         [] pathType[1] = "Prefix"                 -> "prefix"
         [] pathType[1] = "ImplementationSpecific" -> "prefix"
         [] OTHER                                  -> "prefix"

TargetOf(ingress, path) ==
  [IP            |-> path.Service[1].Name \o "." \o ingress.Namespace \o ".svc.cluster.local",
   Port          |-> IF path.Service[1].Port # 0 THEN path.Service[1].Port ELSE 0,
   Method        |-> ConfigBackendScheme,
   Path          |-> path.Path,
   PathMatchType |-> PathMatchTypeOf(path.PathType),
   Priority      |-> PriorityOf(path.Path)]

\* for _, path := range paths: one target per path with a service backend
RECURSIVE TargetsOf(_, _)
TargetsOf(ingress, paths) ==
  IF paths = <<>> THEN <<>>
  ELSE IF Head(paths).Service = <<>>
       THEN TargetsOf(ingress, Tail(paths))
       ELSE <<TargetOf(ingress, Head(paths))>> \o TargetsOf(ingress, Tail(paths))

\* an override that takes the annotation whenever it is present
AnnotationOrPresent(ingress, key, derived) ==
  IF key \in DOMAIN ingress.Annotations THEN ingress.Annotations[key] ELSE derived

AnnotationOr(ingress, key, derived) ==
  IF key \in DOMAIN ingress.Annotations /\ ingress.Annotations[key] # ""
  THEN ingress.Annotations[key] ELSE derived

AnnotationIsTrue(ingress, key) ==
  key \in DOMAIN ingress.Annotations /\ ingress.Annotations[key] = "true"

NoResource == [Name |-> "", Namespace |-> "", Labels |-> NoAnnotations,
               OwnerReferences |-> <<>>, Spec |-> <<>>]

\* a builder without the check for an empty target list
buildDesiredPangolinResourceAnyTargets(ingress, host, paths, tunnelName, tunnelNamespace) ==
  LET split   == SplitFor(host)
      targets == TargetsOf(ingress, paths)
  IN  IF split.err
      THEN [err |-> TRUE, reason |-> "invalid host", obj |-> NoResource]
      ELSE [err |-> FALSE, reason |-> "",
            obj |-> [Name      |-> NameFor(ingress.Namespace, ingress.Name, host),
                     Namespace |-> ingress.Namespace,
                     Labels    |-> [k \in {LabelIngressUID, LabelIngressName,
                                           LabelIngressNamespace} |->
                                      IF k = LabelIngressUID THEN ingress.UID
                                      ELSE IF k = LabelIngressName THEN ingress.Name
                                      ELSE ingress.Namespace],
                     OwnerReferences |-> <<>>,
                     Spec |-> [Name      |-> ingress.Namespace \o "/" \o ingress.Name
                                             \o "/" \o host,
                               Enabled   |-> TRUE,
                               Protocol  |-> "http",
                               TunnelRef |-> [Name |-> tunnelName,
                                              Namespace |-> tunnelNamespace],
                               HTTPConfig |->
                                 <<[DomainName  |-> AnnotationOr(ingress, AnnotationDomainName,
                                                                 split.domain),
                                    Subdomain   |-> AnnotationOr(ingress, AnnotationSubdomain,
                                                                 split.subdomain),
                                    SSO         |-> AnnotationIsTrue(ingress, AnnotationSSO),
                                    BlockAccess |-> AnnotationIsTrue(ingress,
                                                                     AnnotationBlockAccess)]>>,
                               Targets |-> targets]]]

\* a builder that names the object after the tunnel as well
buildDesiredPangolinResourceTunnelName(ingress, host, paths, tunnelName, tunnelNamespace) ==
  LET built == buildDesiredPangolinResourceAnyTargets(ingress, host, paths, tunnelName,
                                                      tunnelNamespace)
  IN  IF ~built.err /\ built.obj.Spec.Targets = <<>>
      THEN [err |-> TRUE, reason |-> "no valid backends", obj |-> NoResource]
      ELSE IF built.err THEN built
      ELSE [built EXCEPT !.obj.Name = @ \o "-" \o tunnelName]

buildDesiredPangolinResource(ingress, host, paths, tunnelName, tunnelNamespace) ==
  LET split   == SplitFor(host)
      targets == TargetsOf(ingress, paths)
  IN  IF split.err
      THEN [err |-> TRUE, reason |-> "invalid host", obj |-> NoResource]
      ELSE IF targets = <<>>
      THEN [err |-> TRUE, reason |-> "no valid backends", obj |-> NoResource]
      ELSE [err |-> FALSE, reason |-> "",
            obj |-> [Name      |-> NameFor(ingress.Namespace, ingress.Name, host),
                     Namespace |-> ingress.Namespace,
                     Labels    |-> [k \in {LabelIngressUID, LabelIngressName,
                                           LabelIngressNamespace} |->
                                      IF k = LabelIngressUID THEN ingress.UID
                                      ELSE IF k = LabelIngressName THEN ingress.Name
                                      ELSE ingress.Namespace],
                     OwnerReferences |-> <<>>,
                     Spec |-> [Name      |-> ingress.Namespace \o "/" \o ingress.Name
                                             \o "/" \o host,
                               Enabled   |-> TRUE,
                               Protocol  |-> "http",
                               TunnelRef |-> [Name |-> tunnelName,
                                              Namespace |-> tunnelNamespace],
                               HTTPConfig |->
                                 <<[DomainName  |-> AnnotationOr(ingress, AnnotationDomainName,
                                                                 split.domain),
                                    Subdomain   |-> AnnotationOr(ingress, AnnotationSubdomain,
                                                                 split.subdomain),
                                    SSO         |-> AnnotationIsTrue(ingress, AnnotationSSO),
                                    BlockAccess |-> AnnotationIsTrue(ingress,
                                                                     AnnotationBlockAccess)]>>,
                               Targets |-> targets]]]

\* a SetControllerReference that leaves the object without an owner
SetControllerReferenceNone(ingress, obj) == obj

\* ctrl.SetControllerReference on a freshly built object
SetControllerReference(ingress, obj) ==
  [obj EXCEPT !.OwnerReferences = <<[UID |-> ingress.UID, Controller |-> TRUE]>>]

\* a specChanged that reports a change whatever the two specs are
specChangedAlways(current, desired) == TRUE

specChanged(current, desired) ==
  \/ current.Name # desired.Name
  \/ current.Enabled # desired.Enabled
  \/ current.Protocol # desired.Protocol
  \/ current.TunnelRef.Name # desired.TunnelRef.Name
  \/ current.TunnelRef.Namespace # desired.TunnelRef.Namespace
  \/ /\ current.HTTPConfig # <<>>
     /\ desired.HTTPConfig # <<>>
     /\ \/ current.HTTPConfig[1].DomainName # desired.HTTPConfig[1].DomainName
        \/ current.HTTPConfig[1].Subdomain # desired.HTTPConfig[1].Subdomain
        \/ current.HTTPConfig[1].SSO # desired.HTTPConfig[1].SSO
        \/ current.HTTPConfig[1].BlockAccess # desired.HTTPConfig[1].BlockAccess
  \/ Len(current.Targets) # Len(desired.Targets)
  \/ \E i \in DOMAIN current.Targets :
        \/ i > Len(desired.Targets)
        \/ current.Targets[i].IP # desired.Targets[i].IP
        \/ current.Targets[i].Port # desired.Targets[i].Port
        \/ current.Targets[i].Method # desired.Targets[i].Method
        \/ current.Targets[i].Path # desired.Targets[i].Path
        \/ current.Targets[i].PathMatchType # desired.Targets[i].PathMatchType
        \/ current.Targets[i].Priority # desired.Targets[i].Priority

(***************************************************************************)
(* reconcilePangolinResource: Get, then Create or Update-if-changed        *)
(***************************************************************************)
\* a reconcilePangolinResource that creates without looking first: the store
\* answers AlreadyExists when the object is there
reconcilePangolinResourceBlind(ps, ingress, desired) ==
  LET wrote == Tick(ps)
  IN  IF Fails(ps) \/ KeyOf(desired) \in DOMAIN ps.store THEN Failed(wrote)
      ELSE Event(Op([wrote EXCEPT !.store = Put(@, KeyOf(desired), desired)],
                    "Create", desired),
                 "Normal", "Created", desired.Name)

\* a reconcilePangolinResource that writes the desired object over the one
\* it found
reconcilePangolinResourceReplace(ps, ingress, desired) ==
  LET got      == Tick(ps)
      existing == got.store[KeyOf(desired)]
      wrote    == Tick(got)
  IN  IF Fails(ps) THEN Failed(got)
      ELSE IF KeyOf(desired) \notin DOMAIN got.store
      THEN IF Fails(got) THEN Failed(wrote)
           ELSE Event(Op([wrote EXCEPT !.store = Put(@, KeyOf(desired), desired)],
                         "Create", desired),
                      "Normal", "Created", desired.Name)
      ELSE IF specChanged(existing.Spec, desired.Spec)
      THEN IF Fails(got) THEN Failed(wrote)
           ELSE Event(Op([wrote EXCEPT !.store = Put(@, KeyOf(desired), desired)],
                         "Update", desired),
                      "Normal", "Updated", desired.Name)
      ELSE got

reconcilePangolinResource(ps, ingress, desired) ==
  LET got      == Tick(ps)
      existing == got.store[KeyOf(desired)]
      updated  == [existing EXCEPT !.Spec = desired.Spec]
      wrote    == Tick(got)
  IN  IF Fails(ps) THEN Failed(got)
      ELSE IF KeyOf(desired) \notin DOMAIN got.store
      THEN IF Fails(got) THEN Failed(wrote)
           ELSE Event(Op([wrote EXCEPT !.store = Put(@, KeyOf(desired), desired)],
                         "Create", desired),
                      "Normal", "Created", desired.Name)
      ELSE IF specChanged(existing.Spec, desired.Spec)
      THEN IF Fails(got) THEN Failed(wrote)
           ELSE Event(Op([wrote EXCEPT !.store = Put(@, KeyOf(updated), updated)],
                         "Update", updated),
                      "Normal", "Updated", desired.Name)
      ELSE got

(***************************************************************************)
(* collectHostPaths                                                        *)
(***************************************************************************)
\* the loop over ingress.Spec.Rules: r[1] is the pass state, r[2] the hostMap
RECURSIVE CollectRules(_, _, _)
\* a loop that assigns a rule's paths to the host in place of appending them
CollectRulesOverwrite(ps, rules, hostMap) ==
  IF rules = <<>> THEN <<ps, hostMap>>
  ELSE LET rule == Head(rules)
       IN  IF rule.Host = ""
           THEN CollectRules(Event(ps, "Warning", "EmptyHost", ""), Tail(rules), hostMap)
           ELSE IF rule.HTTP # <<>>
           THEN CollectRules(ps, Tail(rules), Put(hostMap, rule.Host, rule.HTTP[1].Paths))
           ELSE CollectRules(ps, Tail(rules), hostMap)

CollectRules(ps, rules, hostMap) ==
  IF rules = <<>> THEN <<ps, hostMap>>
  ELSE LET rule == Head(rules)
           old  == IF rule.Host \in DOMAIN hostMap THEN hostMap[rule.Host] ELSE <<>>
       IN  IF rule.Host = ""
           THEN CollectRules(Event(ps, "Warning", "EmptyHost", ""), Tail(rules), hostMap)
           ELSE IF rule.HTTP # <<>>
           THEN CollectRules(ps, Tail(rules),
                             Put(hostMap, rule.Host, old \o rule.HTTP[1].Paths))
           ELSE CollectRules(ps, Tail(rules), hostMap)

HostsOf(ingress) == DOMAIN CollectRules([events |-> <<>>], ingress.Rules, NoAnnotations)[2]

\* a collectHostPaths that skips the rules without a host silently
collectHostPathsQuiet(ps, ingress, order) ==
  LET r == CollectRules(ps, ingress.Rules, NoAnnotations)
  IN  [ps |-> ps,
       groups |-> [i \in 1..Len(order) |-> [Host |-> order[i], Paths |-> r[2][order[i]]]]]

\* order is the order in which the range over hostMap yields its keys
collectHostPaths(ps, ingress, order) ==
  LET r == CollectRules(ps, ingress.Rules, NoAnnotations)
  IN  [ps |-> r[1],
       groups |-> [i \in 1..Len(order) |-> [Host |-> order[i], Paths |-> r[2][order[i]]]]]

(***************************************************************************)
(* cleanupOrphanedResources, handleUnmanaged                               *)
(*                                                                         *)
(* The order in which List returns its items is the store's choice, so the *)
(* loops over the items yield the set of pass states they can end in, one  *)
(* per order in which the items to delete can come.                        *)
(***************************************************************************)
\* the items of a List with the owner label
ListOwned(ps, ingress) ==
  {ps.store[k] : k \in {j \in DOMAIN ps.store : MatchesOwner(ps.store[j], ingress)}}

\* r.Delete(ctx, &resource) and the Deleted event, for one listed item
DeleteItem(ps, obj) ==
  IF Fails(ps) THEN Failed(Tick(ps))
  ELSE Event(Op([Tick(ps) EXCEPT !.store = Remove(@, KeyOf(obj))], "Delete", obj),
             "Normal", "Deleted", obj.Name)

\* for _, resource := range resourceList.Items: an item in desiredNames is
\* passed over; the next item deleted is any other item not yet visited
RECURSIVE CleanupLoop(_, _, _)
CleanupLoop(ps, items, desiredNames) ==
  LET orphans == {it \in items : it.Name \notin desiredNames}
  IN  IF orphans = {} \/ ps.err THEN {ps}
      ELSE UNION {CleanupLoop(DeleteItem(ps, it), items \ {it}, desiredNames) : it \in orphans}

cleanupOrphanedResources(ps, ingress, desiredNames) ==
  IF Fails(ps) THEN {Failed(Tick(ps))}
  ELSE CleanupLoop(Tick(ps), ListOwned(ps, ingress), desiredNames)

\* a handleUnmanaged that returns after the first item it deleted
handleUnmanagedFirstOnly(ps, ingress) ==
  IF Fails(ps) THEN {Failed(Tick(ps))}
  ELSE IF ListOwned(ps, ingress) = {} THEN {Tick(ps)}
  ELSE {DeleteItem(Tick(ps), it) : it \in ListOwned(ps, ingress)}

\* every listed item is deleted
handleUnmanaged(ps, ingress) ==
  IF Fails(ps) THEN {Failed(Tick(ps))}
  ELSE CleanupLoop(Tick(ps), ListOwned(ps, ingress), {})

(***************************************************************************)
(* processHosts, Reconcile                                                 *)
(***************************************************************************)
\* the loop over hostGroups: r[1] is the pass state, r[2] desiredNames
RECURSIVE HostLoop(_, _, _, _, _, _)
\* a loop that ends at the first host it cannot build
HostLoopStop(ps, ingress, groups, tunnelName, tunnelNamespace, desiredNames) ==
  IF groups = <<>> \/ ps.err THEN <<ps, desiredNames>>
  ELSE LET group == Head(groups)
           built == buildDesiredPangolinResource(ingress, group.Host, group.Paths,
                                                 tunnelName, tunnelNamespace)
           desired == SetControllerReference(ingress, built.obj)
       IN  IF built.err
           THEN <<Event(ps, "Warning", "InvalidHost", group.Host), desiredNames>>
           ELSE HostLoop(reconcilePangolinResource(ps, ingress, desired), ingress,
                         Tail(groups), tunnelName, tunnelNamespace,
                         desiredNames \cup {desired.Name})

HostLoop(ps, ingress, groups, tunnelName, tunnelNamespace, desiredNames) ==
  IF groups = <<>> \/ ps.err THEN <<ps, desiredNames>>
  ELSE LET group == Head(groups)
           built == buildDesiredPangolinResource(ingress, group.Host, group.Paths,
                                                 tunnelName, tunnelNamespace)
           desired == SetControllerReference(ingress, built.obj)
       IN  IF built.err
           THEN HostLoop(Event(ps, "Warning", "InvalidHost", group.Host), ingress,
                         Tail(groups), tunnelName, tunnelNamespace, desiredNames)
           ELSE HostLoop(reconcilePangolinResource(ps, ingress, desired), ingress,
                         Tail(groups), tunnelName, tunnelNamespace,
                         desiredNames \cup {desired.Name})

\* a processHosts without the check for an empty rule list
processHostsAnyRules(ps, ingress, tunnelName, tunnelNamespace, order) ==
  LET collected == collectHostPaths(ps, ingress, order)
      looped    == HostLoop(collected.ps, ingress, collected.groups, tunnelName,
                            tunnelNamespace, {})
  IN  IF Len(collected.groups) = 0
      THEN {collected.ps}
      ELSE IF looped[1].err
      THEN {looped[1]}
      ELSE cleanupOrphanedResources(looped[1], ingress, looped[2])

processHosts(ps, ingress, tunnelName, tunnelNamespace, order) ==
  LET collected == collectHostPaths(ps, ingress, order)
      looped    == HostLoop(collected.ps, ingress, collected.groups, tunnelName,
                            tunnelNamespace, {})
  IN  IF Len(ingress.Rules) = 0
      THEN {Event(ps, "Warning", "NoRules", "")}
      ELSE IF Len(collected.groups) = 0
      THEN {collected.ps}
      ELSE IF looped[1].err
      THEN {looped[1]}
      ELSE cleanupOrphanedResources(looped[1], ingress, looped[2])

\* the body of Reconcile for request req, from the r.Get of the Ingress on:
\* the set of pass states it can end in
ReconcilePass(ps, ingressObjs, tunnelList, req, order) ==
  LET fetched   == Tick(ps)
      ingress   == ingressObjs[req]
      resolved  == resolveTunnel(ingress)
      validated == validateTunnel(fetched, tunnelList, resolved.name)
  IN  IF Fails(ps) THEN {Failed(fetched)}
      ELSE IF req \notin DOMAIN ingressObjs THEN {fetched}
      ELSE IF ~isManaged(ingress) THEN handleUnmanaged(fetched, ingress)
      ELSE IF resolved.err
      THEN {Failed(Event(fetched, "Warning", "TunnelResolutionFailed", ""))}
      ELSE IF validated.err
      THEN {[Event(validated.ps, "Warning", "TunnelNotFound", resolved.name)
               EXCEPT !.requeue = TRUE]}
      ELSE processHosts(validated.ps, ingress, resolved.name, validated.namespace, order)


(***************************************************************************)
(* The Ingress and tunnel objects the environment writes.                  *)
(***************************************************************************)
Annotated(key, value) == [k \in {key} |-> value]

\* ingressClassName and annotations
MetaChoices ==
  {[IngressClassName |-> <<"pangolin">>,    Annotations |-> NoAnnotations],
   [IngressClassName |-> <<"nginx">>,       Annotations |-> NoAnnotations],
   [IngressClassName |-> <<"pangolin">>,    Annotations |-> Annotated(AnnotationEnabled, "false")]}

TunnelUniverse == {[Name |-> "default", Namespace |-> "pangolin-system"]}

MakeIngress(meta, rules) ==
  [Namespace |-> IngressNamespace, Name |-> IngressName, UID |-> IngressUID,
   IngressClassName |-> meta.IngressClassName, Annotations |-> meta.Annotations,
   Rules |-> rules]

\* a PangolinResource that exists before the controller first runs, created
\* by hand under the name the controller generates for HostA
ManualAtA ==
  [Name |-> NameFor(IngressNamespace, IngressName, HostA), Namespace |-> IngressNamespace,
   Labels |-> NoAnnotations, OwnerReferences |-> <<>>,
   Spec |-> [Name |-> "manual", Enabled |-> TRUE, Protocol |-> "http",
             TunnelRef |-> [Name |-> "default", Namespace |-> "pangolin-system"],
             HTTPConfig |-> <<>>, Targets |-> <<>>]]

StoreOf(objs) == [k \in {KeyOf(o) : o \in objs} |-> CHOOSE o \in objs : KeyOf(o) = k]

InitStores == {StoreOf({}), StoreOf({ManualAtA})}

(***************************************************************************)
(* State.                                                                  *)
(***************************************************************************)
VARIABLES
  ingresses,  \* the Ingress objects in the store, by <<namespace, name>>
  tunnels,    \* the PangolinTunnels in the store
  store,      \* the PangolinResources in the store, by <<namespace, name>>
  last,       \* the Reconcile pass that has just ended, NoPass otherwise
  procs,      \* the Reconcile passes in flight, by request, store call by store call
  versions,   \* the resourceVersion of each PangolinResource in the store
  probe       \* one call of a pure function: its arguments and its result

vars == <<ingresses, tunnels, store, last, procs, versions, probe>>

\* what the passes that run as one step leave alone
steps == <<procs, versions, probe>>

NoProcs    == [k \in {} |-> ""]
NoVersions == [k \in {} |-> 0]
NoProbe    == [fn |-> "none"]

\* after: if this pass directly follows an interrupted pass for the same
\* request, the store writes of that pass and the store on which the first
\* of the interrupted passes in a row started
NoPass ==
  [req |-> <<>>, result |-> "none", events |-> <<>>, ops |-> <<>>, calls |-> 0,
   before |-> EmptyStore, after |-> <<>>]

Init ==
  /\ ingresses = [k \in IngressKeys |-> MakeIngress(CHOOSE m \in MetaChoices :
                      m.IngressClassName = <<"pangolin">> /\ m.Annotations = NoAnnotations, <<>>)]
  /\ tunnels = {}
  /\ store \in InitStores
  /\ last = NoPass
  /\ procs = NoProcs
  /\ versions = NoVersions
  /\ probe = NoProbe

(***************************************************************************)
(* The environment.  It moves once the record of the last pass is dropped. *)
(***************************************************************************)
\* the pass is over: its record is dropped
Settle ==
  /\ last # NoPass
  /\ last' = NoPass
  /\ UNCHANGED <<ingresses, tunnels, store, steps>>

\* the Ingress is edited: a rule is appended (one with a host only if the
\* Ingress does not have it yet), or rule i is removed
AddRule(k, rule) ==
  /\ last = NoPass
  /\ k \in DOMAIN ingresses
  /\ Len(ingresses[k].Rules) < MaxRules
  /\ rule.Host = "" \/ \A i \in DOMAIN ingresses[k].Rules : ingresses[k].Rules[i] # rule
  /\ ingresses' = [ingresses EXCEPT ![k].Rules = Append(@, rule)]
  /\ UNCHANGED <<tunnels, store, last, steps>>

RemoveRule(k, i) ==
  /\ last = NoPass
  /\ k \in DOMAIN ingresses
  /\ i \in DOMAIN ingresses[k].Rules
  /\ ingresses' = [ingresses EXCEPT ![k].Rules =
                     SubSeq(@, 1, i - 1) \o SubSeq(@, i + 1, Len(@))]
  /\ UNCHANGED <<tunnels, store, last, steps>>

SetMeta(k, meta) ==
  /\ last = NoPass
  /\ k \in DOMAIN ingresses
  /\ <<meta.IngressClassName, meta.Annotations>> #
       <<ingresses[k].IngressClassName, ingresses[k].Annotations>>
  /\ ingresses' = [ingresses EXCEPT ![k].IngressClassName = meta.IngressClassName,
                                    ![k].Annotations = meta.Annotations]
  /\ UNCHANGED <<tunnels, store, last, steps>>

DeleteIngress(k) ==
  /\ last = NoPass
  /\ k \in DOMAIN ingresses
  /\ ingresses' = Remove(ingresses, k)
  /\ UNCHANGED <<tunnels, store, last, steps>>

CreateTunnel(t) ==
  /\ last = NoPass
  /\ t \notin tunnels
  /\ tunnels' = tunnels \cup {t}
  /\ UNCHANGED <<ingresses, store, last, steps>>

DeleteTunnel(t) ==
  /\ last = NoPass
  /\ t \in tunnels
  /\ tunnels' = tunnels \ {t}
  /\ UNCHANGED <<ingresses, store, last, steps>>

\* the store's cascade: an object whose controller owner is gone is removed
CascadeDelete(k) ==
  /\ last = NoPass
  /\ k \in DOMAIN store
  /\ \E i \in DOMAIN store[k].OwnerReferences :
        \A j \in DOMAIN ingresses : ingresses[j].UID # store[k].OwnerReferences[i].UID
  /\ store' = Remove(store, k)
  /\ UNCHANGED <<ingresses, tunnels, last, steps>>

(***************************************************************************)
(* One Reconcile pass for request req.                                     *)
(***************************************************************************)
ResultOf(ps) == IF ps.err THEN "error" ELSE IF ps.requeue THEN "requeue" ELSE "ok"

\* the interrupted pass, if any, that the next pass for req directly follows
Interrupted(req) ==
  IF last.result = "crashed" /\ last.req = req
  THEN <<[ops |-> last.ops,
          before |-> IF last.after # <<>> THEN last.after[1].before ELSE last.before]>>
  ELSE <<>>

\* no store call of the pass fails
Reconcile(req) ==
  \E tunnelList \in SeqPerms(tunnels) :
  \E order \in SeqPerms(IF req \in DOMAIN ingresses THEN HostsOf(ingresses[req]) ELSE {}) :
  \E fin \in ReconcilePass([store |-> store, events |-> <<>>, ops |-> <<>>, calls |-> 0,
                            failAt |-> 0, err |-> FALSE, requeue |-> FALSE],
                           ingresses, tunnelList, req, order) :
    /\ store' = fin.store
    /\ last' = [req |-> req, result |-> ResultOf(fin), events |-> fin.events,
                ops |-> fin.ops, calls |-> fin.calls, before |-> store,
                after |-> Interrupted(req)]
    /\ UNCHANGED <<ingresses, tunnels, steps>>

\* the store after the first n store writes of a pass
RECURSIVE ApplyOps(_, _)
ApplyOps(st, ops) ==
  IF ops = <<>> THEN st
  ELSE LET op == Head(ops)
       IN  ApplyOps(IF op.Kind = "Delete" THEN Remove(st, KeyOf(op.Obj))
                    ELSE Put(st, KeyOf(op.Obj), op.Obj),
                    Tail(ops))

\* The process dies during a pass for req, between two store calls: the
\* first n store writes of the pass have happened, the rest has not.
Crash(req) ==
  \E tunnelList \in SeqPerms(tunnels) :
  \E order \in SeqPerms(IF req \in DOMAIN ingresses THEN HostsOf(ingresses[req]) ELSE {}) :
  \E fin \in ReconcilePass([store |-> store, events |-> <<>>, ops |-> <<>>, calls |-> 0,
                            failAt |-> 0, err |-> FALSE, requeue |-> FALSE],
                           ingresses, tunnelList, req, order) :
  \E n \in 0..(Len(fin.ops) - 1) :
    /\ store' = ApplyOps(store, SubSeq(fin.ops, 1, n))
    /\ last' = [req |-> req, result |-> "crashed",
                events |-> SubSeq(fin.events, 1, fin.ops[n + 1].Events),
                ops |-> SubSeq(fin.ops, 1, n), calls |-> fin.ops[n + 1].Call - 1,
                before |-> store, after |-> Interrupted(req)]
    /\ UNCHANGED <<ingresses, tunnels, steps>>

Next ==
  \/ Settle
  \/ \E k \in IngressKeys, rule \in RuleChoices : AddRule(k, rule)
  \/ \E k \in IngressKeys, i \in 1..MaxRules : RemoveRule(k, i)
  \/ \E k \in IngressKeys, meta \in MetaChoices : SetMeta(k, meta)
  \/ \E k \in IngressKeys : DeleteIngress(k)
  \/ \E t \in TunnelUniverse : CreateTunnel(t)
  \/ \E t \in TunnelUniverse : DeleteTunnel(t)
  \/ \E k \in DOMAIN store : CascadeDelete(k)
  \/ \E req \in IngressKeys : Reconcile(req)

Spec == Init /\ [][Next]_vars

\* The store's garbage collector runs whatever the controller does, and the
\* record of a pass is dropped: an object whose owner is gone is removed at
\* some time.
Cascade == \E k \in DOMAIN store : CascadeDelete(k)

\* the rules of the Ingress where the store's cascade or a crash is looked
\* at: two hosts with one name, a third host, a second path and a rule
\* without a host
CoreRuleChoices ==
  {Rule(HostA, <<PathRoot>>), Rule(HostB, <<PathRoot>>), Rule(HostC, <<PathRoot>>),
   Rule(HostA, <<PathApi>>), Rule("", <<PathGhost>>)}

NextLive ==
  \/ Settle
  \/ \E k \in IngressKeys, rule \in CoreRuleChoices : AddRule(k, rule)
  \/ \E k \in IngressKeys, i \in 1..MaxRules : RemoveRule(k, i)
  \/ \E k \in IngressKeys, meta \in MetaChoices : SetMeta(k, meta)
  \/ \E k \in IngressKeys : DeleteIngress(k)
  \/ \E t \in TunnelUniverse : CreateTunnel(t)
  \/ \E t \in TunnelUniverse : DeleteTunnel(t)
  \/ Cascade
  \/ \E req \in IngressKeys : Reconcile(req)

SpecLive == Init /\ [][NextLive]_vars /\ WF_vars(Settle) /\ SF_vars(Cascade)

NextCrash ==
  \/ Settle
  \/ \E k \in IngressKeys,
          rule \in {Rule(HostA, <<PathRoot>>), Rule(HostB, <<PathRoot, PathApi>>),
                    Rule(HostC, <<PathRoot>>)} : AddRule(k, rule)
  \/ \E k \in IngressKeys, i \in 1..MaxRules : RemoveRule(k, i)
  \/ \E k \in IngressKeys, meta \in MetaChoices : SetMeta(k, meta)
  \/ \E k \in IngressKeys : DeleteIngress(k)
  \/ \E t \in TunnelUniverse : CreateTunnel(t)
  \/ \E t \in TunnelUniverse : DeleteTunnel(t)
  \/ Cascade
  \/ \E req \in IngressKeys : Reconcile(req)
  \/ \E req \in IngressKeys : Crash(req)

SpecCrash == Init /\ [][NextCrash]_vars

TypeOK ==
  /\ DOMAIN ingresses \subseteq IngressKeys
  /\ tunnels \subseteq TunnelUniverse
  /\ last.result \in {"none", "ok", "requeue", "error", "crashed"}
  /\ last.result = "none" => last = NoPass

(***************************************************************************)
(* Reconcile store call by store call.  Two Ingresses are reconciled by    *)
(* two workers at once; a step is one call to the store together with the  *)
(* code that runs up to the next call.  procs[req] is what the pass for    *)
(* req holds in memory.  An Update carries the resourceVersion that the    *)
(* Get returned, and the store answers Conflict when it is not the current *)
(* one.                                                                    *)
(***************************************************************************)
\* sanitizeName gives both Ingress names as my-app
StepIngressA == "my.app"
StepIngressB == "my-app"
StepKeys     == {<<IngressNamespace, StepIngressA>>, <<IngressNamespace, StepIngressB>>}

\* default/my.app/HostX and default/my-app/HostY have one ShortHash
HostX == "app130943.example.com"
HostY == "app14850.example.com"

StepIngressChoices ==
  LET StepIngress(name, uid, className, rules) ==
        [Namespace |-> IngressNamespace, Name |-> name, UID |-> uid,
         IngressClassName |-> <<className>>, Annotations |-> NoAnnotations,
         Rules |-> rules]
  IN
  {[k \in StepKeys |-> IF k[2] = StepIngressA
                       THEN StepIngress(StepIngressA, "uid-1", "pangolin", rulesA)
                       ELSE StepIngress(StepIngressB, "uid-2", classB, rulesB)] :
     rulesA \in {<<Rule(HostX, <<PathRoot>>)>>, <<Rule(HostB, <<PathRoot>>)>>,
                 <<Rule(HostX, <<PathRoot>>), Rule(HostB, <<PathRoot>>)>>},
     rulesB \in {<<Rule(HostY, <<PathRoot>>)>>, <<Rule(HostB, <<PathRoot>>)>>},
     classB \in {"pangolin", "nginx"}}

\* the PangolinResource a pass creates for host with the paths
Derived(ingress, host, paths) ==
  SetControllerReference(ingress,
    buildDesiredPangolinResource(ingress, host, paths, "default", "pangolin-system").obj)

\* the stores the two passes start on: empty, or with the PangolinResource of
\* HostB of the first Ingress, or with that of the second Ingress as it was
\* when HostB had the path /api; both passes are at the entry of Reconcile
InitSteps ==
  /\ ingresses \in StepIngressChoices
  /\ tunnels = TunnelUniverse
  /\ LET a == Derived(ingresses[<<IngressNamespace, StepIngressA>>], HostB, <<PathRoot>>)
         b == Derived(ingresses[<<IngressNamespace, StepIngressB>>], HostB, <<PathApi>>)
     IN  store \in {StoreOf({}), StoreOf({a}), StoreOf({b}), StoreOf({a, b})}
  /\ versions = [k \in DOMAIN store |-> 1]
  /\ procs = [req \in StepKeys |->
       [pc |-> "start", ingress |-> <<>>, tunnelName |-> "", tunnelNamespace |-> "",
        groups |-> <<>>, desired |-> NoResource, existing |-> <<>>,
        desiredNames |-> {}, items |-> {}, events |-> <<>>, ops |-> <<>>,
        calls |-> 0, failAt |-> 0, gets |-> <<>>, conflict |-> <<>>,
        failed |-> <<>>, result |-> "none", before |-> store]]
  /\ last = NoPass
  /\ probe = NoProbe

\* the return of Reconcile
Done(local, result) == [local EXCEPT !.pc = "done", !.result = result]

\* the store call that the pass is at returns an error: failed keeps its kind
FailedAt(local, kind) == [local EXCEPT !.failed = <<kind>>]

\* a mutating store call of a pass: its verb, the object handed to it, and
\* the object that was in the store under that name
LogOp(local, kind, obj, was) ==
  [local EXCEPT !.ops = Append(@, [Kind |-> kind, Name |-> obj.Name, Obj |-> obj,
                                   Was |-> was])]

\* processHosts from the top of the loop over hostGroups to the next store
\* call: the groups that cannot be built are passed over
RECURSIVE NextHost(_)
NextHost(local) ==
  IF local.groups = <<>> THEN [local EXCEPT !.pc = "list"]
  ELSE LET ingress == local.ingress[1]
           group   == Head(local.groups)
           built   == buildDesiredPangolinResource(ingress, group.Host, group.Paths,
                                                   local.tunnelName, local.tunnelNamespace)
           desired == SetControllerReference(ingress, built.obj)
       IN  IF built.err
           THEN NextHost(Event([local EXCEPT !.groups = Tail(@)],
                               "Warning", "InvalidHost", group.Host))
           ELSE [local EXCEPT !.pc = "get", !.groups = Tail(@), !.desired = desired,
                              !.desiredNames = @ \cup {desired.Name}]

\* r.Get of the Ingress, isManaged and resolveTunnel
StepStart(req) ==
  /\ procs[req].pc = "start"
  /\ LET local    == Tick(procs[req])
         ingress  == ingresses[req]
         resolved == resolveTunnel(ingress)
     IN  procs' = [procs EXCEPT ![req] =
           IF req \notin DOMAIN ingresses THEN Done(local, "ok")
           ELSE IF ~isManaged(ingress)
           THEN [local EXCEPT !.pc = "listUnmanaged", !.ingress = <<ingress>>]
           ELSE IF resolved.err
           THEN Done(Event(local, "Warning", "TunnelResolutionFailed", ""), "error")
           ELSE [local EXCEPT !.pc = "tunnel", !.ingress = <<ingress>>,
                              !.tunnelName = resolved.name]]
  /\ UNCHANGED <<ingresses, tunnels, store, last, versions, probe>>

\* validateTunnel, then processHosts up to the first Get
StepTunnel(req) ==
  /\ procs[req].pc = "tunnel"
  /\ \E tunnelList \in SeqPerms(tunnels) :
     \E order \in SeqPerms(HostsOf(procs[req].ingress[1])) :
       LET local     == procs[req]
           ingress   == local.ingress[1]
           validated == validateTunnel(local, tunnelList, local.tunnelName)
           found     == [validated.ps EXCEPT !.tunnelNamespace = validated.namespace]
           collected == collectHostPaths(found, ingress, order)
       IN  procs' = [procs EXCEPT ![req] =
             IF validated.err
             THEN Done(Event(validated.ps, "Warning", "TunnelNotFound", local.tunnelName),
                       "requeue")
             ELSE IF Len(ingress.Rules) = 0
             THEN Done(Event(found, "Warning", "NoRules", ""), "ok")
             ELSE IF Len(collected.groups) = 0 THEN Done(collected.ps, "ok")
             ELSE NextHost([collected.ps EXCEPT !.groups = collected.groups])]
  /\ UNCHANGED <<ingresses, tunnels, store, last, versions, probe>>

\* reconcilePangolinResource: r.Get of the desired name, and specChanged
StepGet(req) ==
  /\ procs[req].pc = "get"
  /\ LET local == [Tick(procs[req]) EXCEPT !.gets = Append(@, KeyOf(procs[req].desired))]
         k     == KeyOf(local.desired)
     IN  procs' = [procs EXCEPT ![req] =
           IF k \notin DOMAIN store THEN [local EXCEPT !.pc = "create"]
           ELSE IF specChanged(store[k].Spec, local.desired.Spec)
           THEN [local EXCEPT !.pc = "update",
                              !.existing = <<[obj |-> store[k], version |-> versions[k]]>>]
           ELSE NextHost(local)]
  /\ UNCHANGED <<ingresses, tunnels, store, last, versions, probe>>

\* reconcilePangolinResource: r.Create; AlreadyExists is returned as an error
StepCreate(req) ==
  /\ procs[req].pc = "create"
  /\ LET local == Tick(procs[req])
         k     == KeyOf(local.desired)
     IN  IF k \in DOMAIN store
         THEN /\ procs' = [procs EXCEPT ![req] = Done(FailedAt(local, "create"), "error")]
              /\ UNCHANGED <<store, versions>>
         ELSE /\ store' = Put(store, k, local.desired)
              /\ versions' = Put(versions, k, 1)
              /\ procs' = [procs EXCEPT ![req] =
                   NextHost(Event(LogOp(local, "Create", local.desired, <<>>),
                                  "Normal", "Created", local.desired.Name))]
  /\ UNCHANGED <<ingresses, tunnels, last, probe>>

\* reconcilePangolinResource: existing.Spec = desired.Spec and r.Update;
\* NotFound and Conflict are returned as errors
StepUpdate(req) ==
  /\ procs[req].pc = "update"
  /\ LET local   == Tick(procs[req])
         k       == KeyOf(local.desired)
         updated == [local.existing[1].obj EXCEPT !.Spec = local.desired.Spec]
     IN  IF k \notin DOMAIN store
         THEN /\ procs' = [procs EXCEPT ![req] = Done(FailedAt(local, "update"), "error")]
              /\ UNCHANGED <<store, versions>>
         ELSE IF versions[k] # local.existing[1].version
         THEN /\ procs' = [procs EXCEPT ![req] =
                   Done(FailedAt([local EXCEPT !.conflict = <<k>>], "update"), "error")]
              /\ UNCHANGED <<store, versions>>
         ELSE /\ store' = Put(store, k, updated)
              /\ versions' = [versions EXCEPT ![k] = @ + 1]
              /\ procs' = [procs EXCEPT ![req] =
                   NextHost(Event(LogOp(local, "Update", updated, <<store[k]>>),
                                  "Normal", "Updated", local.desired.Name))]
  /\ UNCHANGED <<ingresses, tunnels, last, probe>>

\* the List with the owner label; the items to delete are those whose name
\* is not in desiredNames
ListStep(req, desiredNames) ==
  LET local   == Tick(procs[req])
      orphans == {it \in ListOwned([store |-> store], local.ingress[1]) :
                    it.Name \notin desiredNames}
  IN  /\ procs' = [procs EXCEPT ![req] =
             IF orphans = {} THEN Done(local, "ok")
             ELSE [local EXCEPT !.pc = "delete", !.items = orphans]]
      /\ UNCHANGED <<ingresses, tunnels, store, last, versions, probe>>

\* cleanupOrphanedResources: r.List
StepList(req) ==
  /\ procs[req].pc = "list"
  /\ ListStep(req, procs[req].desiredNames)

\* handleUnmanaged: r.List
StepListUnmanaged(req) ==
  /\ procs[req].pc = "listUnmanaged"
  /\ ListStep(req, {})

\* r.Delete of one listed item, by name; NotFound is ignored, and the
\* Deleted event is emitted
StepDelete(req) ==
  /\ procs[req].pc = "delete"
  /\ \E it \in procs[req].items :
       LET k      == KeyOf(it)
           was    == IF k \in DOMAIN store THEN <<store[k]>> ELSE <<>>
           local  == Event(LogOp(Tick(procs[req]), "Delete", it, was),
                           "Normal", "Deleted", it.Name)
           rest   == procs[req].items \ {it}
       IN  /\ store' = IF k \in DOMAIN store THEN Remove(store, k) ELSE store
           /\ versions' = IF k \in DOMAIN versions THEN Remove(versions, k) ELSE versions
           /\ procs' = [procs EXCEPT ![req] =
                IF rest = {} THEN Done([local EXCEPT !.items = rest], "ok")
                ELSE [local EXCEPT !.items = rest]]
  /\ UNCHANGED <<ingresses, tunnels, last, probe>>

NextSteps ==
  \/ \E req \in StepKeys : StepStart(req)
  \/ \E req \in StepKeys : StepTunnel(req)
  \/ \E req \in StepKeys : StepGet(req)
  \/ \E req \in StepKeys : StepCreate(req)
  \/ \E req \in StepKeys : StepUpdate(req)
  \/ \E req \in StepKeys : StepList(req)
  \/ \E req \in StepKeys : StepListUnmanaged(req)
  \/ \E req \in StepKeys : StepDelete(req)

SpecSteps == InitSteps /\ [][NextSteps]_vars

\* Another writer (a person, another controller) writes a PangolinResource
\* that a pass has read and is about to update: its resourceVersion moves on.
Touch(k) ==
  /\ k \in DOMAIN store
  /\ \E req \in DOMAIN procs :
        /\ procs[req].pc = "update"
        /\ KeyOf(procs[req].desired) = k
        /\ procs[req].existing[1].version = versions[k]
  /\ versions' = [versions EXCEPT ![k] = @ + 1]
  /\ UNCHANGED <<ingresses, tunnels, store, last, procs, probe>>

NextConflict ==
  \/ \E req \in StepKeys : StepStart(req)
  \/ \E req \in StepKeys : StepTunnel(req)
  \/ \E req \in StepKeys : StepGet(req)
  \/ \E req \in StepKeys : StepCreate(req)
  \/ \E req \in StepKeys : StepUpdate(req)
  \/ \E req \in StepKeys : StepList(req)
  \/ \E req \in StepKeys : StepListUnmanaged(req)
  \/ \E req \in StepKeys : StepDelete(req)
  \/ \E k \in DOMAIN store : Touch(k)

SpecConflict == InitSteps /\ [][NextConflict]_vars

(***************************************************************************)
(* The two passes with store calls that fail: the store, or the way to it, *)
(* returns an error that is none of NotFound, AlreadyExists and Conflict.  *)
(* And another actor (a person, another controller, the store's cascade)   *)
(* deletes a PangolinResource that a pass has listed and not yet deleted.  *)
(***************************************************************************)
\* a pass that logs the error of a Get, Create or Update and goes on to the
\* cleanup
StepFailContinue(req) ==
  /\ procs[req].pc \in {"start", "tunnel", "get", "create", "update", "list",
                        "listUnmanaged", "delete"}
  /\ LET local == FailedAt(Tick(procs[req]), procs[req].pc)
     IN  procs' = [procs EXCEPT ![req] =
           IF local.pc \in {"get", "create", "update"}
           THEN [local EXCEPT !.pc = "list", !.groups = <<>>]
           ELSE Done(local, "error")]
  /\ UNCHANGED <<ingresses, tunnels, store, last, versions, probe>>

\* a pass that logs the error of a Delete and returns success
StepFailQuiet(req) ==
  /\ procs[req].pc \in {"start", "tunnel", "get", "create", "update", "list",
                        "listUnmanaged", "delete"}
  /\ LET local == FailedAt(Tick(procs[req]), procs[req].pc)
     IN  procs' = [procs EXCEPT ![req] =
           Done(local, IF local.pc = "delete" THEN "ok" ELSE "error")]
  /\ UNCHANGED <<ingresses, tunnels, store, last, versions, probe>>

\* the store call that the pass for req is at fails.  Every error is
\* returned, but the one of the List of the tunnels in validateTunnel, which
\* is reported as TunnelNotFound and answered with a requeue request.
StepFail(req) ==
  /\ procs[req].pc \in {"start", "tunnel", "get", "create", "update", "list",
                        "listUnmanaged", "delete"}
  /\ LET local     == FailedAt(procs[req], procs[req].pc)
         validated == validateTunnel([local EXCEPT !.failAt = local.calls + 1], <<>>,
                                     local.tunnelName)
     IN  procs' = [procs EXCEPT ![req] =
           IF local.pc = "tunnel"
           THEN Done(Event([validated.ps EXCEPT !.failAt = 0],
                           "Warning", "TunnelNotFound", local.tunnelName), "requeue")
           ELSE Done(Tick(local), "error")]
  /\ UNCHANGED <<ingresses, tunnels, store, last, versions, probe>>

\* k is deleted by another actor between the List and the Delete of a pass
Vanish(k) ==
  /\ k \in DOMAIN store
  /\ \E req \in DOMAIN procs :
        /\ procs[req].pc = "delete"
        /\ \E it \in procs[req].items : KeyOf(it) = k
  /\ store' = Remove(store, k)
  /\ versions' = Remove(versions, k)
  /\ UNCHANGED <<ingresses, tunnels, last, procs, probe>>

NextFaults ==
  \/ \E req \in StepKeys : StepStart(req)
  \/ \E req \in StepKeys : StepTunnel(req)
  \/ \E req \in StepKeys : StepGet(req)
  \/ \E req \in StepKeys : StepCreate(req)
  \/ \E req \in StepKeys : StepUpdate(req)
  \/ \E req \in StepKeys : StepList(req)
  \/ \E req \in StepKeys : StepListUnmanaged(req)
  \/ \E req \in StepKeys : StepDelete(req)
  \/ \E req \in StepKeys : StepFail(req)
  \/ \E k \in DOMAIN store : Vanish(k)

SpecFaults == InitSteps /\ [][NextFaults]_vars

(***************************************************************************)
(* The Ingress with every kind of class and annotation.  Its rules are set *)
(* when it is created and can only be removed; its class and annotations   *)
(* are edited between passes.                                              *)
(***************************************************************************)
Meta(className, annotations) ==
  [IngressClassName |-> className, Annotations |-> annotations]

WideMetaChoices ==
  {Meta(<<>>, NoAnnotations),
   Meta(<<"pangolin">>, NoAnnotations),
   Meta(<<"pangolin-eu">>, NoAnnotations),
   Meta(<<"pangolin-us">>, NoAnnotations),
   Meta(<<"pangolinx">>, NoAnnotations),
   Meta(<<"nginx">>, NoAnnotations),
   Meta(<<"Pangolin">>, NoAnnotations),
   Meta(<<"pangolin">>, Annotated(AnnotationEnabled, "false")),
   Meta(<<"pangolin">>, Annotated(AnnotationEnabled, "FALSE")),
   Meta(<<"pangolin">>, Annotated(AnnotationEnabled, "False")),
   Meta(<<"pangolin">>, Annotated(AnnotationEnabled, "true")),
   Meta(<<"pangolin">>, Annotated(AnnotationEnabled, "no")),
   Meta(<<"pangolin-eu">>, Annotated(AnnotationEnabled, "false")),
   Meta(<<"nginx">>, Annotated(AnnotationEnabled, "true")),
   Meta(<<"pangolin">>, Annotated(AnnotationTunnelName, "")),
   Meta(<<"pangolin">>, Annotated(AnnotationTunnelName, "custom")),
   Meta(<<"pangolin-eu">>, Annotated(AnnotationTunnelName, "custom")),
   Meta(<<"pangolin">>, Annotated(AnnotationDomainName, "")),
   Meta(<<"pangolin">>, Annotated(AnnotationDomainName, "override.io")),
   Meta(<<"pangolin">>, Annotated(AnnotationSubdomain, "")),
   Meta(<<"pangolin">>, Annotated(AnnotationSubdomain, "www")),
   Meta(<<"pangolin">>, Annotated(AnnotationDomainName, "override.io")
                          @@ Annotated(AnnotationSubdomain, "www"))}

\* the tunnels are those that the classes and the tunnel-name annotation
\* above name, but for the tunnel us of the class pangolin-us, or none
InitMeta ==
  /\ \E meta \in WideMetaChoices, uid \in {"uid-1", "uid-2"},
        rules \in {<<>>,
                   <<Rule(HostA, <<PathRoot>>)>>,
                   <<Rule(HostA, <<PathRoot>>), Rule(HostB, <<PathRoot, PathApi>>)>>,
                   <<Rule(HostWildcard, <<PathRoot>>), Rule("", <<PathGhost>>)>>} :
        ingresses = [k \in IngressKeys |-> [MakeIngress(meta, rules) EXCEPT !.UID = uid]]
  /\ tunnels \in {{[Name |-> "default",   Namespace |-> "pangolin-system"],
                   [Name |-> "tunnel-eu", Namespace |-> "pangolin-system"],
                   [Name |-> "custom",    Namespace |-> "edge"]},
                  {}}
  /\ store \in InitStores
  /\ last = NoPass
  /\ procs = NoProcs
  /\ versions = NoVersions
  /\ probe = NoProbe

NextMeta ==
  \/ Settle
  \/ \E k \in IngressKeys : \E meta \in WideMetaChoices : SetMeta(k, meta)
  \/ \E k \in IngressKeys : \E i \in 1..MaxRules : RemoveRule(k, i)
  \/ \E req \in IngressKeys : Reconcile(req)

SpecMeta == InitMeta /\ [][NextMeta]_vars

(***************************************************************************)
(* specChanged and GenerateName called on their own: the arguments are     *)
(* drawn when the behaviour starts and one step applies the function.      *)
(***************************************************************************)
TargetWeb == [IP |-> "web.default.svc.cluster.local", Port |-> 80, Method |-> "http",
              Path |-> "/", PathMatchType |-> "prefix", Priority |-> 110]
TargetApi == [IP |-> "api.default.svc.cluster.local", Port |-> 8080, Method |-> "http",
              Path |-> "/api", PathMatchType |-> "exact", Priority |-> 140]

BaseSpec ==
  [Name |-> "default/myapp/api.example.com", Enabled |-> TRUE, Protocol |-> "http",
   TunnelRef |-> [Name |-> "default", Namespace |-> "pangolin-system"],
   HTTPConfig |-> <<[DomainName |-> "example.com", Subdomain |-> "api",
                     SSO |-> FALSE, BlockAccess |-> FALSE]>>,
   Targets |-> <<TargetWeb, TargetApi>>]

\* BaseSpec and the specs that differ from it in one place
SpecChoices ==
  {BaseSpec,
   [BaseSpec EXCEPT !.Name = "default/myapp/app23742.example.com"],
   [BaseSpec EXCEPT !.Enabled = FALSE],
   [BaseSpec EXCEPT !.Protocol = "tcp"],
   [BaseSpec EXCEPT !.TunnelRef.Name = "tunnel-eu"],
   [BaseSpec EXCEPT !.TunnelRef.Namespace = "default"],
   [BaseSpec EXCEPT !.HTTPConfig = <<>>],
   [BaseSpec EXCEPT !.HTTPConfig[1].DomainName = "example.co.uk"],
   [BaseSpec EXCEPT !.HTTPConfig[1].Subdomain = ""],
   [BaseSpec EXCEPT !.HTTPConfig[1].SSO = TRUE],
   [BaseSpec EXCEPT !.HTTPConfig[1].BlockAccess = TRUE],
   [BaseSpec EXCEPT !.Targets = <<>>],
   [BaseSpec EXCEPT !.Targets = <<TargetWeb>>],
   [BaseSpec EXCEPT !.Targets = <<TargetApi, TargetWeb>>],
   [BaseSpec EXCEPT !.Targets = <<TargetWeb, TargetApi, TargetWeb>>],
   [BaseSpec EXCEPT !.Targets[2].IP = "web.default.svc.cluster.local"],
   [BaseSpec EXCEPT !.Targets[2].Port = 80],
   [BaseSpec EXCEPT !.Targets[2].Method = "https"],
   [BaseSpec EXCEPT !.Targets[2].Path = "/ap2"],
   [BaseSpec EXCEPT !.Targets[2].PathMatchType = "prefix"],
   [BaseSpec EXCEPT !.Targets[2].Priority = 1000]}

InitDiffer ==
  /\ ingresses = [k \in {} |-> ""]
  /\ tunnels = {}
  /\ store = EmptyStore
  /\ last = NoPass
  /\ procs = NoProcs
  /\ versions = NoVersions
  /\ \E current \in SpecChoices, desired \in SpecChoices :
        probe = [fn |-> "specChanged", current |-> current, desired |-> desired,
                 out |-> <<>>]

ApplySpecChanged ==
  /\ probe.fn = "specChanged"
  /\ probe.out = <<>>
  /\ probe' = [probe EXCEPT !.out = <<specChanged(probe.current, probe.desired)>>]
  /\ UNCHANGED <<ingresses, tunnels, store, last, procs, versions>>

NextDiffer == ApplySpecChanged

SpecDiffer == InitDiffer /\ [][NextDiffer]_vars

HostChoices == {"app23742.example.com", "api.example.com", "shop.example.co.uk", ""}

InitNames ==
  /\ ingresses = [k \in {} |-> ""]
  /\ tunnels = {}
  /\ store = EmptyStore
  /\ last = NoPass
  /\ procs = NoProcs
  /\ versions = NoVersions
  /\ \E host \in HostChoices,
        \* namespaces that leave 42, 1 and no characters for the Ingress name
        namespace \in
          {"default",
           "team-payments-production-eu-west-1-blue-canary01",
           "team-payments-production-eu-west-1-blue-canary012",
           "a23456789-b23456789-c23456789-d23456789-e23456789-f23456789-g23"},
        \* Ingress names: short, with a dot, and longer than 42 characters with a
        \* hyphen as 42nd character, with dots, and with letters and digits only
        ingressName \in
          {"myapp", "my.app", "a",
           "storefront-checkout-payments-gateway-prod-eu1-canary",
           "shop.frontend.payments.internal.eu-west-1.example.services",
           "storefrontcheckoutpaymentsgatewayinternalv2canaryblue01"} :
        probe = [fn |-> "GenerateName", namespace |-> namespace,
                 ingressName |-> ingressName, host |-> host, out |-> <<>>]

ApplyGenerateName ==
  /\ probe.fn = "GenerateName"
  /\ probe.out = <<>>
  /\ probe' = [probe EXCEPT !.out = <<GenerateName(probe.namespace, probe.ingressName,
                                                   probe.host)>>]
  /\ UNCHANGED <<ingresses, tunnels, store, last, procs, versions>>

NextNames == ApplyGenerateName

SpecNames == InitNames /\ [][NextNames]_vars

\* resolveTunnel on its own
InitTunnel ==
  /\ ingresses = [k \in {} |-> ""]
  /\ tunnels = {}
  /\ store = EmptyStore
  /\ last = NoPass
  /\ procs = NoProcs
  /\ versions = NoVersions
  /\ \E className \in {<<>>, <<"">>, <<"pangolin">>, <<"pangolin-eu">>, <<"pangolin-us">>,
                        <<"pangolin-">>, <<"pangolinx">>, <<"nginx">>, <<"Pangolin">>},
        enabled \in {NoAnnotations, Annotated(AnnotationEnabled, "false")},
        tunnelName \in {NoAnnotations, Annotated(AnnotationTunnelName, ""),
                        Annotated(AnnotationTunnelName, "custom")} :
        probe = [fn |-> "resolveTunnel",
                 ingress |-> MakeIngress(Meta(className, enabled @@ tunnelName), <<>>),
                 out |-> <<>>]

ApplyResolveTunnel ==
  /\ probe.fn = "resolveTunnel"
  /\ probe.out = <<>>
  /\ probe' = [probe EXCEPT !.out = <<resolveTunnel(probe.ingress)>>]
  /\ UNCHANGED <<ingresses, tunnels, store, last, procs, versions>>

NextTunnel == ApplyResolveTunnel

SpecTunnel == InitTunnel /\ [][NextTunnel]_vars

\* the priority of a target on its own
MaxPathLen == 100

\* the prefixes of two paths of 120 characters
PathStrings ==
  LET LongPathA ==
        "/api/v1/tenants/acme/projects/storefront/environments/production/services/checkout/instances/eu-west-1a/metrics/latency/"
      LongPathB ==
        "/static/assets/images/catalogue/2024/spring/collection/outerwear/jackets/waterproof/thumbnails/large/retina/img-000123.w"
  IN  {SubSeq(base, 1, n) : base \in {LongPathA, LongPathB}, n \in 0..MaxPathLen}

InitPriority ==
  /\ ingresses = [k \in {} |-> ""]
  /\ tunnels = {}
  /\ store = EmptyStore
  /\ last = NoPass
  /\ procs = NoProcs
  /\ versions = NoVersions
  /\ \E path \in PathStrings :
        probe = [fn |-> "priority", path |-> path, out |-> <<>>]

\* the body of the loop over paths, for a path with a service backend
ApplyPriority ==
  /\ probe.fn = "priority"
  /\ probe.out = <<>>
  /\ probe' = [probe EXCEPT !.out =
                 TargetsOf(MakeIngress(Meta(<<"pangolin">>, NoAnnotations), <<>>),
                           <<[Path |-> probe.path, PathType |-> <<"Prefix">>,
                              Service |-> Service("web", 80)]>>)]
  /\ UNCHANGED <<ingresses, tunnels, store, last, procs, versions>>

NextPriority == ApplyPriority

SpecPriority == InitPriority /\ [][NextPriority]_vars

(***************************************************************************)
(* An Ingress is reconciled, disabled with the enabled annotation and      *)
(* reconciled, enabled again and reconciled.  probe keeps the stage, the   *)
(* store as the first pass left it and the Ingress as it was disabled.     *)
(***************************************************************************)
RoundTripKey == <<IngressNamespace, IngressName>>

InitRoundTrip ==
  /\ \E rules \in UNION {[1..n -> CoreRuleChoices] : n \in 1..MaxRules} :
        ingresses = [k \in IngressKeys |->
                       MakeIngress(Meta(<<"pangolin">>, NoAnnotations), rules)]
  /\ tunnels = TunnelUniverse
  /\ store \in InitStores
  /\ last = NoPass
  /\ procs = NoProcs
  /\ versions = NoVersions
  /\ probe = [fn |-> "roundtrip", stage |-> "start", snapshot |-> EmptyStore,
              converged |-> FALSE, ingress |-> <<>>]

\* the ends of the passes for req that start on store st and are not interrupted
PassesFrom(st, req) ==
  UNION {ReconcilePass([store |-> st, events |-> <<>>, ops |-> <<>>, calls |-> 0,
                        failAt |-> 0, err |-> FALSE, requeue |-> FALSE],
                       ingresses, tunnelList, req, order) :
           tunnelList \in SeqPerms(tunnels),
           order \in SeqPerms(IF req \in DOMAIN ingresses
                              THEN HostsOf(ingresses[req]) ELSE {})}

\* the pass that the edit of the Ingress triggers
RoundTripReconcile ==
  /\ probe.stage \in {"start", "disabled", "enabled"}
  /\ \E tunnelList \in SeqPerms(tunnels) :
     \E order \in SeqPerms(HostsOf(ingresses[RoundTripKey])) :
     \E fin \in ReconcilePass([store |-> store, events |-> <<>>, ops |-> <<>>, calls |-> 0,
                               failAt |-> 0, err |-> FALSE, requeue |-> FALSE],
                              ingresses, tunnelList, RoundTripKey, order) :
       /\ store' = fin.store
       /\ last' = [req |-> RoundTripKey, result |-> ResultOf(fin), events |-> fin.events,
                   ops |-> fin.ops, calls |-> fin.calls, before |-> store, after |-> <<>>]
       /\ probe' = IF probe.stage = "start"
                   THEN [probe EXCEPT !.stage = "converged", !.snapshot = fin.store,
                                      \* another pass would write nothing
                                      !.converged =
                                        \A again \in PassesFrom(fin.store, RoundTripKey) :
                                           again.ops = <<>> /\ ~again.err]
                   ELSE IF probe.stage = "disabled"
                   THEN [probe EXCEPT !.stage = "deleted"]
                   ELSE [probe EXCEPT !.stage = "recreated"]
  /\ UNCHANGED <<ingresses, tunnels, procs, versions>>

\* the enabled annotation is set to false, in one spelling or another
Disable(value) ==
  /\ probe.stage = "converged"
  /\ ingresses' = [ingresses EXCEPT ![RoundTripKey].Annotations =
                     Annotated(AnnotationEnabled, value)]
  /\ probe' = [probe EXCEPT !.stage = "disabled", !.ingress = <<ingresses'[RoundTripKey]>>]
  /\ last' = NoPass
  /\ UNCHANGED <<tunnels, store, procs, versions>>

\* the enabled annotation is removed, or set to true
Enable(annotations) ==
  /\ probe.stage = "deleted"
  /\ ingresses' = [ingresses EXCEPT ![RoundTripKey].Annotations = annotations]
  /\ probe' = [probe EXCEPT !.stage = "enabled"]
  /\ last' = NoPass
  /\ UNCHANGED <<tunnels, store, procs, versions>>

NextRoundTrip ==
  \/ RoundTripReconcile
  \/ \E value \in {"false", "False"} : Disable(value)
  \/ \E annotations \in {NoAnnotations, Annotated(AnnotationEnabled, "true")} :
        Enable(annotations)

SpecRoundTrip == InitRoundTrip /\ [][NextRoundTrip]_vars

(***************************************************************************)
(* The Ingress and the tunnels are edited for a while and then left alone; *)
(* probe.quiet says that the edits are over.  A pass is triggered when the *)
(* record of the pass before it is dropped; no store call fails.  A host   *)
(* can have a rule with a service backend and one with a resource backend. *)
(***************************************************************************)
InitQuiet ==
  /\ ingresses = [k \in IngressKeys |-> MakeIngress(Meta(<<"pangolin">>, NoAnnotations), <<>>)]
  /\ tunnels = {}
  /\ store \in InitStores
  /\ last = NoPass
  /\ procs = NoProcs
  /\ versions = NoVersions
  /\ probe = [fn |-> "quiet", quiet |-> FALSE]

\* the last edit has been made
Quiesce ==
  /\ ~probe.quiet
  /\ probe' = [probe EXCEPT !.quiet = TRUE]
  /\ UNCHANGED <<ingresses, tunnels, store, last, procs, versions>>

\* the passes that the watch on the Ingress and the requeue trigger
Retrigger == last = NoPass /\ \E req \in IngressKeys : Reconcile(req)

NextQuiet ==
  \/ Settle
  \/ /\ ~probe.quiet
     /\ \E k \in IngressKeys,
           rule \in {Rule(HostA, <<PathRoot>>), Rule(HostA, <<PathRes>>),
                     Rule(HostB, <<PathRoot>>), Rule(HostB, <<PathRes>>),
                     Rule("", <<PathGhost>>)} : AddRule(k, rule)
  \/ /\ ~probe.quiet
     /\ \E k \in IngressKeys, i \in 1..MaxRules : RemoveRule(k, i)
  \/ /\ ~probe.quiet
     /\ \E k \in IngressKeys, meta \in MetaChoices : SetMeta(k, meta)
  \/ /\ ~probe.quiet
     /\ \E t \in TunnelUniverse : CreateTunnel(t)
  \/ /\ ~probe.quiet
     /\ \E t \in TunnelUniverse : DeleteTunnel(t)
  \/ Quiesce
  \/ Retrigger

SpecQuiet == InitQuiet /\ [][NextQuiet]_vars /\ WF_vars(Settle)

(***************************************************************************)
(* Vocabulary of the properties.  In a state with last.result # "none" the *)
(* Ingress, the tunnels and the store are as the last pass left them.      *)
(***************************************************************************)
PassDone == last.result # "none" /\ last.req \in DOMAIN ingresses

PassIngress == ingresses[last.req]

\* the keys of the PangolinResources in st that carry ing's UID label
Owned(st, ing) == {k \in DOMAIN st : MatchesOwner(st[k], ing)}

\* the non-empty hosts in the rules of ing
RuleHosts(ing) == {ing.Rules[i].Host : i \in DOMAIN ing.Rules} \ {""}

KeyFor(ing, host) == <<ing.Namespace, NameFor(ing.Namespace, ing.Name, host)>>

DisplayNameOf(ing, host) == ing.Namespace \o "/" \o ing.Name \o "/" \o host

\* the hosts that are neither wildcards nor IP literals
ValidHosts == {h \in HostUniverse : ~Contains(h, "*") /\ ~IsIPLiteral(h)}

ValidHost(host) == host \in ValidHosts

\* the paths of the rules for host, rule after rule
PathsInRuleOrder(ing, host) ==
  LET idx == {i \in DOMAIN ing.Rules : ing.Rules[i].Host = host /\ ing.Rules[i].HTTP # <<>>}
      F[n \in 0..Len(ing.Rules)] ==
        IF n = 0 THEN <<>>
        ELSE IF n \in idx THEN F[n - 1] \o ing.Rules[n].HTTP[1].Paths ELSE F[n - 1]
  IN  F[Len(ing.Rules)]

ServicePaths(ing, host) ==
  SelectSeq(PathsInRuleOrder(ing, host), LAMBDA p : p.Service # <<>>)

\* host is valid and one of its paths has a service backend
Buildable(ing, host) == ValidHost(host) /\ ServicePaths(ing, host) # <<>>

TunnelPresent(ing) == \E t \in tunnels : t.Name = resolveTunnel(ing).name

\* the last pass was for a managed Ingress with its tunnel and returned
\* success without a requeue request
ManagedPassOk ==
  /\ PassDone
  /\ isManaged(PassIngress)
  /\ TunnelPresent(PassIngress)
  /\ last.result = "ok"

EventsWith(reason) == {i \in DOMAIN last.events : last.events[i].Reason = reason}

EventsAbout(reason, about) ==
  {i \in EventsWith(reason) : last.events[i].About = about}

OpsOfKind(kind) == {i \in DOMAIN last.ops : last.ops[i].Kind = kind}

\* the writes of the last pass that carry the object built for host
WritesFor(ing, host) ==
  LET name == DisplayNameOf(ing, host)
  IN  {i \in DOMAIN last.ops : /\ last.ops[i].Kind \in {"Create", "Update"}
                               /\ last.ops[i].Obj.Spec.Name = name}

\* no two hosts in the rules of ing get the same name from GenerateName
DistinctNames(ing) ==
  \A h1, h2 \in RuleHosts(ing) : h1 # h2 => KeyFor(ing, h1) # KeyFor(ing, h2)

(***************************************************************************)
(* C1.  Idempotence as claimed: a Reconcile pass that directly follows a   *)
(* pass without error, with the Ingress and the tunnels unchanged in       *)
(* between, issues no Create, Update or Delete and leaves the store as it  *)
(* was.  A step from the record of one pass to the record of another is    *)
(* such a second pass.                                                     *)
(***************************************************************************)
C1_IdempotentAlways ==
  [][(/\ last.result \in {"ok", "requeue"}
      /\ last'.result # "none"
      /\ last'.req = last.req)
       => (last'.ops = <<>> /\ store' = store)]_vars

\* the same for an Ingress whose hosts get pairwise distinct names
C1_Idempotent ==
  [][(/\ last.result \in {"ok", "requeue"}
      /\ last'.result # "none"
      /\ last'.req = last.req
      /\ last.req \in DOMAIN ingresses => DistinctNames(ingresses[last.req]))
       => (last'.ops = <<>> /\ store' = store)]_vars

(***************************************************************************)
(* C2.  Cardinality as claimed: after a successful pass of a managed       *)
(* Ingress whose tunnel exists and whose N non-empty hosts are all valid   *)
(* and have a service backend, exactly N PangolinResources carry the       *)
(* Ingress's UID label, one per host, with pairwise distinct names.        *)
(***************************************************************************)
C2_Cardinality ==
  (/\ ManagedPassOk
   /\ RuleHosts(PassIngress) # {}
   /\ \A h \in RuleHosts(PassIngress) : Buildable(PassIngress, h))
    => /\ Cardinality(Owned(store, PassIngress)) = Cardinality(RuleHosts(PassIngress))
       /\ Owned(store, PassIngress) = {KeyFor(PassIngress, h) : h \in RuleHosts(PassIngress)}
       /\ DistinctNames(PassIngress)

(***************************************************************************)
(* C3.  Orphan cleanup as claimed: the store held one PangolinResource per *)
(* host, each as desired, for the Ingress and one more host b; the pass    *)
(* for the Ingress without b deletes b's PangolinResource, emits one       *)
(* Deleted event for it and issues no other Update or Delete.              *)
(***************************************************************************)
\* the object built for host under the Ingress as it is now
DesiredFor(ing, host) ==
  SetControllerReference(ing,
    buildDesiredPangolinResource(ing, host, PathsInRuleOrder(ing, host),
      resolveTunnel(ing).name,
      (CHOOSE t \in tunnels : t.Name = resolveTunnel(ing).name).Namespace).obj)

\* before the pass the store was converged for the hosts of ing and host b
ConvergedWith(ing, b) ==
  /\ b \in HostUniverse \ (RuleHosts(ing) \cup {""})
  /\ \A h \in RuleHosts(ing) : Buildable(ing, h)
  /\ \A h1, h2 \in RuleHosts(ing) \cup {b} : h1 # h2 => KeyFor(ing, h1) # KeyFor(ing, h2)
  /\ Owned(last.before, ing) = {KeyFor(ing, h) : h \in RuleHosts(ing) \cup {b}}
  /\ \A h \in RuleHosts(ing) : last.before[KeyFor(ing, h)] = DesiredFor(ing, h)

C3_OrphanCleanup ==
  \A b \in HostUniverse :
    (ManagedPassOk /\ ConvergedWith(PassIngress, b))
      => /\ KeyFor(PassIngress, b) \notin DOMAIN store
         /\ \A i \in OpsOfKind("Delete") : KeyOf(last.ops[i].Obj) = KeyFor(PassIngress, b)
         /\ Cardinality(OpsOfKind("Delete")) = 1
         /\ Cardinality(EventsWith("Deleted")) = 1
         /\ OpsOfKind("Update") = {}

(***************************************************************************)
(* C4.  Ownership invariant as claimed: after a pass of a managed Ingress  *)
(* that returns success without a requeue request, every PangolinResource  *)
(* with the Ingress's UID label has the name generated for a non-empty     *)
(* host in the Ingress's rules.                                            *)
(***************************************************************************)
C4_OwnedHaveHost ==
  (PassDone /\ isManaged(PassIngress) /\ last.result = "ok")
    => \A k \in Owned(store, PassIngress) :
          \E h \in RuleHosts(PassIngress) : k = KeyFor(PassIngress, h)

(***************************************************************************)
(* C5.  As claimed: every Update and every Delete of a pass is issued on a *)
(* PangolinResource that carries the Ingress's UID label.                  *)
(***************************************************************************)
C5_OnlyOwnTouched ==
  PassDone =>
    \A i \in OpsOfKind("Update") \cup OpsOfKind("Delete") :
      MatchesOwner(last.ops[i].Obj, PassIngress)

(***************************************************************************)
(* C6.  A pass for an Ingress that is not managed (its class is neither    *)
(* pangolin nor pangolin-*, or its enabled annotation is false) and that   *)
(* had N PangolinResources with its UID label leaves none of them, emits   *)
(* exactly N Deleted events, and does nothing at all when N = 0.           *)
(***************************************************************************)
Unmanaged(ing) ==
  \/ /\ ClassNameOf(ing) # "pangolin"
     /\ ~HasPrefix(ClassNameOf(ing), "pangolin-")
  \/ /\ AnnotationEnabled \in DOMAIN ing.Annotations
     /\ ToLower(ing.Annotations[AnnotationEnabled]) = "false"

C6_UnmanagedCleansUp ==
  (PassDone /\ Unmanaged(PassIngress) /\ last.result = "ok")
    => /\ Owned(store, PassIngress) = {}
       /\ Cardinality(EventsWith("Deleted")) = Cardinality(Owned(last.before, PassIngress))
       /\ Cardinality(OpsOfKind("Delete")) = Cardinality(Owned(last.before, PassIngress))
       /\ Owned(last.before, PassIngress) = {}
            => (last.ops = <<>> /\ last.events = <<>> /\ store = last.before)

\* an Ingress that lost its class or was disabled, with two PangolinResources
C6_Witness ==
  /\ PassDone
  /\ Unmanaged(PassIngress)
  /\ last.result = "ok"
  /\ Cardinality(Owned(last.before, PassIngress)) = 2
  /\ Owned(store, PassIngress) = {}

(***************************************************************************)
(* C7.  In a successful pass that reaches the host grouper, every host     *)
(* that occurs in rules with HTTP paths gets exactly one path group,       *)
(* whatever the order of the groups, and the group's paths are the paths   *)
(* of those rules concatenated in rule order; the pass writes at most one  *)
(* PangolinResource for the host, and the one it wrote or found has one    *)
(* target per path with a service backend, in that order.                  *)
(***************************************************************************)
GroupHosts(ing) ==
  {h \in RuleHosts(ing) : \E i \in DOMAIN ing.Rules :
                             ing.Rules[i].Host = h /\ ing.Rules[i].HTTP # <<>>}

\* path and backend service of each target, in the order of the targets
TargetKeys(targets) == [i \in DOMAIN targets |-> <<targets[i].Path, targets[i].IP>>]

ExpectedTargetKeys(ing, host) ==
  LET paths == ServicePaths(ing, host)
  IN  [i \in DOMAIN paths |->
         <<paths[i].Path,
           paths[i].Service[1].Name \o "." \o ing.Namespace \o ".svc.cluster.local">>]

GroupsIn(ing, order) == collectHostPaths([events |-> <<>>], ing, order).groups

\* the PangolinResource the pass wrote for host, or the one it found and kept
ProducedFor(ing, host) ==
  IF WritesFor(ing, host) # {}
  THEN {last.ops[i].Obj : i \in WritesFor(ing, host)}
  ELSE {last.before[k] : k \in {j \in {KeyFor(ing, host)} \cap DOMAIN last.before :
                                  last.before[j].Spec.Name = DisplayNameOf(ing, host)}}

C7_DedupMerge ==
  ManagedPassOk =>
    LET ing   == PassIngress
        hosts == GroupHosts(ing)
    IN  /\ \A order \in SeqPerms(HostsOf(ing)) :
              LET groups == GroupsIn(ing, order)
              IN  \A h \in hosts :
                    /\ Cardinality({i \in DOMAIN groups : groups[i].Host = h}) = 1
                    /\ \A i \in DOMAIN groups :
                          groups[i].Host = h => groups[i].Paths = PathsInRuleOrder(ing, h)
        /\ \A h \in hosts :
              Buildable(ing, h) =>
                LET produced == ProducedFor(ing, h)
                IN  /\ Cardinality(produced) = 1
                    /\ Cardinality(WritesFor(ing, h)) <= 1
                    /\ \A o \in produced :
                          TargetKeys(o.Spec.Targets) = ExpectedTargetKeys(ing, h)

\* HostA in two rules, /api before /: one PangolinResource written, two targets
C7_Witness ==
  /\ ManagedPassOk
  /\ Cardinality({i \in DOMAIN PassIngress.Rules : PassIngress.Rules[i].Host = HostA}) = 2
  /\ WritesFor(PassIngress, HostA) # {}
  /\ KeyFor(PassIngress, HostA) \in DOMAIN store
  /\ TargetKeys(store[KeyFor(PassIngress, HostA)].Spec.Targets)
       = << <<"/api", "api.default.svc.cluster.local">>,
            <<"/", "web.default.svc.cluster.local">> >>

(***************************************************************************)
(* C8.  In a successful pass that reaches the host grouper, every rule     *)
(* with an empty host gets exactly one EmptyHost warning event and no      *)
(* group and no PangolinResource; the paths of the other groups are those  *)
(* of their own rules; and every host with a valid name and a service      *)
(* backend in the same Ingress has its PangolinResource written or kept.   *)
(***************************************************************************)
EmptyHostRules(ing) == {i \in DOMAIN ing.Rules : ing.Rules[i].Host = ""}

C8_EmptyHostSkipped ==
  ManagedPassOk =>
    LET ing == PassIngress
    IN  /\ Cardinality(EventsWith("EmptyHost")) = Cardinality(EmptyHostRules(ing))
        /\ \A i \in EventsWith("EmptyHost") : last.events[i].Type = "Warning"
        /\ \A order \in SeqPerms(HostsOf(ing)) :
              LET groups == GroupsIn(ing, order)
              IN  \A i \in DOMAIN groups :
                    /\ groups[i].Host # ""
                    /\ groups[i].Paths = PathsInRuleOrder(ing, groups[i].Host)
        /\ WritesFor(ing, "") = {}
        /\ \A h \in GroupHosts(ing) : Buildable(ing, h) => ProducedFor(ing, h) # {}

\* two rules, one without a host: one warning, and the other host is created
C8_Witness ==
  /\ ManagedPassOk
  /\ Cardinality(EmptyHostRules(PassIngress)) = 1
  /\ Cardinality(EventsWith("EmptyHost")) = 1
  /\ \E h \in GroupHosts(PassIngress) :
        \E i \in OpsOfKind("Create") : i \in WritesFor(PassIngress, h)

(***************************************************************************)
(* C9.  A pass for a managed Ingress whose resolved tunnel name matches no *)
(* PangolinTunnel emits one TunnelNotFound warning event, asks for a       *)
(* requeue, and issues no Create, Update or Delete.                        *)
(***************************************************************************)
C9_MissingTunnel ==
  (/\ PassDone
   /\ isManaged(PassIngress)
   /\ ~resolveTunnel(PassIngress).err
   /\ ~TunnelPresent(PassIngress)
   /\ last.result # "error")
    => /\ last.result = "requeue"
       /\ Cardinality(EventsWith("TunnelNotFound")) = 1
       /\ \A i \in EventsWith("TunnelNotFound") : last.events[i].Type = "Warning"
       /\ last.ops = <<>>
       /\ store = last.before

\* the tunnel is gone while one host waits for its PangolinResource and
\* another PangolinResource has lost its host
C9_Witness ==
  /\ PassDone
  /\ isManaged(PassIngress)
  /\ ~TunnelPresent(PassIngress)
  /\ last.result = "requeue"
  /\ \E h \in GroupHosts(PassIngress) :
        Buildable(PassIngress, h) /\ KeyFor(PassIngress, h) \notin DOMAIN store
  /\ \E k \in Owned(store, PassIngress) :
        \A h \in RuleHosts(PassIngress) : k # KeyFor(PassIngress, h)

(***************************************************************************)
(* C10.  In a successful pass, every host group that cannot be built (a    *)
(* wildcard or IP-literal host, or no path with a service backend) gets    *)
(* one InvalidHost warning event and no write, and every other host group  *)
(* of the Ingress has its PangolinResource created, updated or kept as     *)
(* desired, whatever the order of the groups.                              *)
(***************************************************************************)
C10_BadHostIsolated ==
  ManagedPassOk =>
    LET ing == PassIngress
    IN  \A h \in GroupHosts(ing) :
          LET produced == ProducedFor(ing, h)
              warnings == EventsAbout("InvalidHost", h)
          IN  IF Buildable(ing, h)
              THEN /\ warnings = {}
                   /\ produced # {}
                   /\ \A o \in produced : o.Spec = DesiredFor(ing, h).Spec
              ELSE /\ Cardinality(warnings) = 1
                   /\ \A i \in warnings : last.events[i].Type = "Warning"
                   /\ WritesFor(ing, h) = {}

\* the host that cannot be built came first, the other was created after it
C10_Witness ==
  /\ ManagedPassOk
  /\ \E i, j \in DOMAIN last.events :
        /\ i < j
        /\ last.events[i].Reason = "InvalidHost"
        /\ last.events[j].Reason = "Created"

(***************************************************************************)
(* C15.  A pass for a request whose Ingress is gone returns success after  *)
(* the one Get of the Ingress: no List, Create, Update or Delete and no    *)
(* event; and once the Ingress is deleted, every PangolinResource that     *)
(* carries its UID label is removed by the store's cascade at some time.   *)
(***************************************************************************)
LabelledWith(st, uid) ==
  {k \in DOMAIN st : LabelIngressUID \in DOMAIN st[k].Labels
                     /\ st[k].Labels[LabelIngressUID] = uid}

IngressGone == DOMAIN ingresses = {}

PassForGone == last.result # "none" /\ last.req \notin DOMAIN ingresses

Healed == last.after # <<>> /\ last.result \notin {"none", "crashed"}

C11_CrashHeals ==
  Healed => \E fin \in PassesFrom(last.after[1].before, last.req) :
               fin.store = store /\ ResultOf(fin) = last.result

\* the pass was interrupted after its creates and before the orphan cleanup:
\* the pass that follows finds the creates done and deletes the orphan
C11_Witness ==
  /\ Healed
  /\ last.result = "ok"
  /\ \E i \in DOMAIN last.after[1].ops : last.after[1].ops[i].Kind = "Create"
  /\ \A i \in DOMAIN last.after[1].ops : last.after[1].ops[i].Kind # "Delete"
  /\ Cardinality(OpsOfKind("Delete")) = 1
  /\ Len(last.ops) = 1

(***************************************************************************)
(* C12.  When two Ingresses are reconciled at once, under every            *)
(* interleaving of their store calls, no pass writes or deletes a          *)
(* PangolinResource of the other Ingress, and the store the two passes     *)
(* leave is one that running them one after the other leaves.              *)
(***************************************************************************)
AllDone == \A req \in DOMAIN procs : procs[req].pc = "done"

\* the stores two passes leave when one runs after the other, from st
SequentialEnds(st) ==
  UNION {UNION {{second.store : second \in PassesFrom(first.store, order[2])} :
                  first \in PassesFrom(st, order[1])} :
           order \in SeqPerms(StepKeys)}

\* the call acted on a PangolinResource that carries the uid of an Ingress
\* other than the one of the pass
OnAnothers(op, req) ==
  /\ op.Was # <<>>
  /\ LabelIngressUID \in DOMAIN op.Was[1].Labels
  /\ op.Was[1].Labels[LabelIngressUID] # ingresses[req].UID

\* the names an Ingress derives
StepNames(req) ==
  {NameFor(ingresses[req].Namespace, ingresses[req].Name, h) : h \in RuleHosts(ingresses[req])}

StepsDistinct ==
  StepNames(<<IngressNamespace, StepIngressA>>) \cap StepNames(<<IngressNamespace, StepIngressB>>) = {}

C12_Independent ==
  /\ \A req \in DOMAIN procs : \A i \in DOMAIN procs[req].ops :
        ~OnAnothers(procs[req].ops[i], req)
  /\ AllDone => store \in SequentialEnds(procs[<<IngressNamespace, StepIngressA>>].before)

\* C12 holds of two Ingresses that derive no common name
C12_IndependentDistinct == StepsDistinct => C12_Independent

\* the two passes ran to their end on two Ingresses that derive no common
\* name, each having written
C12_WitnessDistinct ==
  /\ AllDone
  /\ StepsDistinct
  /\ \A req \in DOMAIN procs : procs[req].ops # <<>>

(***************************************************************************)
(* C13.  A pass whose Update of a PangolinResource was answered with       *)
(* Conflict has fetched that PangolinResource again and retried the step   *)
(* of that host before it returns.                                         *)
(***************************************************************************)
Fetches(local, k) == Cardinality({i \in DOMAIN local.gets : local.gets[i] = k})

C13_ConflictRetried ==
  \A req \in DOMAIN procs :
    procs[req].conflict # <<>> => Fetches(procs[req], procs[req].conflict[1]) >= 2

\* what the code does on Conflict: the pass ends with the error after the
\* one Get it made
C13_ConflictEndsPass ==
  \A req \in DOMAIN procs :
    procs[req].conflict # <<>> =>
      /\ procs[req].pc = "done"
      /\ procs[req].result = "error"
      /\ Fetches(procs[req], procs[req].conflict[1]) = 1

C13_WitnessConflict == \E req \in DOMAIN procs : procs[req].conflict # <<>>

(***************************************************************************)
(* C14.  Identity markers as claimed: after a successful pass of a managed *)
(* Ingress, the PangolinResource under the name generated for each host    *)
(* the pass could build carries the three labels with the Ingress's UID,   *)
(* name and namespace and a controller owner reference to the Ingress,     *)
(* whether the pass created it or found it.                                *)
(***************************************************************************)
HasIdentityMarkers(obj, ing) ==
  /\ {LabelIngressUID, LabelIngressName, LabelIngressNamespace} \subseteq DOMAIN obj.Labels
  /\ obj.Labels[LabelIngressUID] = ing.UID
  /\ obj.Labels[LabelIngressName] = ing.Name
  /\ obj.Labels[LabelIngressNamespace] = ing.Namespace
  /\ \E i \in DOMAIN obj.OwnerReferences :
        obj.OwnerReferences[i].UID = ing.UID /\ obj.OwnerReferences[i].Controller

\* the desired-name set of the pass: the names of the hosts it could build
DesiredKeys(ing) == {KeyFor(ing, h) : h \in {g \in GroupHosts(ing) : Buildable(ing, g)}}

C14_IdentityMarkers ==
  ManagedPassOk =>
    \A k \in DesiredKeys(PassIngress) :
      k \in DOMAIN store /\ HasIdentityMarkers(store[k], PassIngress)

\* the same for the objects the pass created
C14_CreatedCarryMarkers ==
  PassDone =>
    \A i \in OpsOfKind("Create") : HasIdentityMarkers(last.ops[i].Obj, PassIngress)

(***************************************************************************)
(* C16.  Every PangolinResource a pass creates or updates has at least one *)
(* target; for a host whose paths all lack a service backend the builder   *)
(* returns an error, and a successful pass writes nothing for that host.   *)
(***************************************************************************)
NoBackendHosts(ing) == {h \in GroupHosts(ing) : ServicePaths(ing, h) = <<>>}

C16_NonEmptyTargets ==
  PassDone =>
    /\ \A i \in OpsOfKind("Create") \cup OpsOfKind("Update") :
          Len(last.ops[i].Obj.Spec.Targets) >= 1
    /\ \A h \in NoBackendHosts(PassIngress) :
          /\ buildDesiredPangolinResource(PassIngress, h, PathsInRuleOrder(PassIngress, h),
                                          "default", "pangolin-system").err
          /\ WritesFor(PassIngress, h) = {}

\* a valid host with a resource backend only, next to a host that is created
C16_Witness ==
  /\ ManagedPassOk
  /\ \E h \in NoBackendHosts(PassIngress) :
        ValidHost(h) /\ EventsAbout("InvalidHost", h) # {}
  /\ OpsOfKind("Create") # {}

(***************************************************************************)
(* C17.  Update only when changed, as claimed: in a successful pass, the   *)
(* PangolinResource found under the name of a host is updated, with one    *)
(* Updated event, exactly when its stored spec differs from the spec       *)
(* desired for the host, and after the pass its stored spec is the desired *)
(* spec; so a host whose stored spec is as desired receives no write when  *)
(* another host of the Ingress changes.                                    *)
(***************************************************************************)
UpdatesOf(k) == {i \in OpsOfKind("Update") : KeyOf(last.ops[i].Obj) = k}

UpdatedEventsOf(k) == EventsAbout("Updated", k[2])

UpdateOnlyChanged(ing, h) ==
  LET k == KeyFor(ing, h)
  IN  k \in DOMAIN last.before =>
        /\ UpdatesOf(k) # {} <=> last.before[k].Spec # DesiredFor(ing, h).Spec
        /\ Cardinality(UpdatesOf(k)) <= 1
        /\ Cardinality(UpdatedEventsOf(k)) = Cardinality(UpdatesOf(k))
        /\ k \in DOMAIN store /\ store[k].Spec = DesiredFor(ing, h).Spec

C17_UpdateOnlyChanged ==
  ManagedPassOk =>
    \A h \in GroupHosts(PassIngress) :
      Buildable(PassIngress, h) => UpdateOnlyChanged(PassIngress, h)

\* the same for an Ingress whose hosts get pairwise distinct names
C17_UpdateOnlyChangedDistinct ==
  (ManagedPassOk /\ DistinctNames(PassIngress)) =>
    \A h \in GroupHosts(PassIngress) :
      Buildable(PassIngress, h) => UpdateOnlyChanged(PassIngress, h)

\* a path was added to HostA: its PangolinResource is updated, HostB's is not
\* (the Ingress has three rules: reached with MaxRules = 3)
C17_PathAddedToOneHost ==
  /\ ManagedPassOk
  /\ DistinctNames(PassIngress)
  /\ Cardinality(GroupHosts(PassIngress)) >= 2
  /\ \E h \in GroupHosts(PassIngress) :
        /\ KeyFor(PassIngress, h) \in DOMAIN last.before
        /\ Len(last.before[KeyFor(PassIngress, h)].Spec.Targets) = 1
        /\ Len(DesiredFor(PassIngress, h).Spec.Targets) = 2
        /\ UpdatesOf(KeyFor(PassIngress, h)) # {}
  /\ Cardinality(OpsOfKind("Update")) = 1
  /\ Len(last.ops) = 1
(***************************************************************************)
(* C18.  Spec Differ as claimed: specChanged(current, desired) is true     *)
(* exactly when the two specs differ in a field: name, enabled, protocol,  *)
(* tunnel name or namespace, presence of the HTTP config or one of its     *)
(* four fields, or the target lists by length and position by position.    *)
(***************************************************************************)
DifferApplied == probe.fn = "specChanged" /\ probe.out # <<>>

C18_DifferExact ==
  DifferApplied => (probe.out[1] <=> probe.current # probe.desired)

\* the same for two specs that both have, or both lack, the HTTP config
C18_DifferSamePresence ==
  (DifferApplied /\ (probe.current.HTTPConfig = <<>> <=> probe.desired.HTTPConfig = <<>>))
    => (probe.out[1] <=> probe.current # probe.desired)

\* two targets in the other order count as a change
C18_ReorderIsChange ==
  /\ DifferApplied
  /\ probe.current.Targets = <<TargetWeb, TargetApi>>
  /\ probe.desired.Targets = <<TargetApi, TargetWeb>>
  /\ probe.out[1]

(***************************************************************************)
(* C19.  GenerateName returns at most 63 characters, for every namespace,  *)
(* Ingress name and host.                                                  *)
(***************************************************************************)
NameApplied == probe.fn = "GenerateName" /\ probe.out # <<>>

C19_NameLength == NameApplied => Len(probe.out[1]) <= 63

\* an Ingress name cut to the 42 characters that the namespace leaves
C19_Witness ==
  /\ NameApplied
  /\ probe.namespace = "default"
  /\ Len(probe.ingressName) > 42
  /\ Len(probe.out[1]) = 63

\* a namespace that leaves no room: the prefix and the hash only
C19_WitnessExtreme ==
  /\ NameApplied
  /\ Len(probe.namespace) = 63
  /\ Len(probe.out[1]) = 12

(***************************************************************************)
(* C20.  Name grammar as claimed: the string GenerateName returns, also    *)
(* when it was truncated, has only lowercase letters, digits and hyphens,  *)
(* no hyphen first or last, and no two hyphens in a row.                   *)
(***************************************************************************)
InGrammar(name) ==
  /\ \A i \in 1..Len(name) : IsLowerAlnum(Char(name, i)) \/ Char(name, i) = "-"
  /\ name # "" => (Char(name, 1) # "-" /\ Char(name, Len(name)) # "-")
  /\ ~Contains(name, "--")

C20_NameGrammar == NameApplied => InGrammar(probe.out[1])

\* the same for the names that were not truncated
C20_NameGrammarUntruncated ==
  (/\ NameApplied
   /\ Len(NamePrefix) + Len(probe.namespace) + Len(probe.ingressName) + 11 <= MaxNameLength)
    => InGrammar(probe.out[1])

(***************************************************************************)
(* C21.  The string GenerateName returns ends with a hyphen and the eight  *)
(* characters of the fingerprint of namespace/ingressName/host, so that    *)
(* two hosts of one Ingress with different fingerprints get different      *)
(* names.                                                                  *)
(***************************************************************************)
HasSuffix(s, suffix) ==
  Len(s) >= Len(suffix) /\ SubSeq(s, Len(s) - Len(suffix) + 1, Len(s)) = suffix

FingerprintOf(namespace, ingressName, host) ==
  ShortHash(namespace \o "/" \o ingressName \o "/" \o host)

C21_FingerprintKept ==
  NameApplied =>
    LET fingerprint == FingerprintOf(probe.namespace, probe.ingressName, probe.host)
    IN  /\ Len(fingerprint) = 8
        /\ HasSuffix(probe.out[1], "-" \o fingerprint)
        /\ \A other \in HostChoices :
              FingerprintOf(probe.namespace, probe.ingressName, other) # fingerprint
                => GenerateName(probe.namespace, probe.ingressName, other) # probe.out[1]

\* a name that was shortened, of an Ingress whose other hosts have other fingerprints
C21_Witness ==
  /\ NameApplied
  /\ Len(GenerateNameUntruncated(probe.namespace, probe.ingressName, probe.host)) > MaxNameLength
  /\ \E other \in HostChoices :
        FingerprintOf(probe.namespace, probe.ingressName, other) #
          FingerprintOf(probe.namespace, probe.ingressName, probe.host)

(***************************************************************************)
(* C22.  Scope prefix as claimed: when the name before truncation is       *)
(* longer than 63 characters, the string GenerateName returns starts with  *)
(* pic-<namespace>- and is pic-<namespace>-<a proper prefix of the Ingress *)
(* name>-<fingerprint>.                                                    *)
(***************************************************************************)
Truncated ==
  /\ NameApplied
  /\ Len(GenerateNameUntruncated(probe.namespace, probe.ingressName, probe.host)) > MaxNameLength

\* only the Ingress-name segment is shortened, to n characters
ShortenedTo(n) ==
  probe.out[1] = NamePrefix \o "-" \o probe.namespace \o "-"
                   \o SubSeq(probe.ingressName, 1, n) \o "-"
                   \o FingerprintOf(probe.namespace, probe.ingressName, probe.host)

C22_ScopePrefix ==
  Truncated =>
    /\ HasPrefix(probe.out[1], NamePrefix \o "-" \o probe.namespace \o "-")
    /\ \E n \in 0..(Len(probe.ingressName) - 1) : ShortenedTo(n)

\* the characters left to the Ingress name by the prefix and the fingerprint
RoomFor(namespace) == MaxNameLength - (Len(NamePrefix) + 1 + Len(namespace) + 1) - 9

\* C22 as amended: the scope prefix is kept when the namespace leaves at
\* least one character to the Ingress name, which is then cut to the room
\* left; with a longer namespace the name is pic-<fingerprint>.
C22_ScopePrefixWhenRoom ==
  Truncated =>
    IF RoomFor(probe.namespace) > 0
    THEN /\ HasPrefix(probe.out[1], NamePrefix \o "-" \o probe.namespace \o "-")
         /\ RoomFor(probe.namespace) < Len(probe.ingressName)
         /\ ShortenedTo(RoomFor(probe.namespace))
    ELSE probe.out[1] = NamePrefix \o "-"
                          \o FingerprintOf(probe.namespace, probe.ingressName, probe.host)

\* a namespace of 48 characters leaves one character to the Ingress name
C22_Witness ==
  /\ Truncated
  /\ RoomFor(probe.namespace) = 1
  /\ Len(probe.ingressName) > 1

\* a namespace of 49 characters leaves none
C22_WitnessNoRoom ==
  /\ Truncated
  /\ RoomFor(probe.namespace) = 0

(***************************************************************************)
(* C25.  An Ingress is reconciled as managed if and only if its            *)
(* ingressClassName is pangolin or starts with pangolin- and its enabled   *)
(* annotation is not false in any spelling of upper and lower case; in     *)
(* every other case the pass takes the unmanaged path and creates and      *)
(* updates nothing.                                                        *)
(***************************************************************************)
FalseSpellings ==
  {f \o a \o l \o s2 \o e : f \in {"f", "F"}, a \in {"a", "A"}, l \in {"l", "L"},
                            s2 \in {"s", "S"}, e \in {"e", "E"}}

ManagedAsClaimed(ing) ==
  /\ \/ ing.IngressClassName = <<"pangolin">>
     \/ /\ ing.IngressClassName # <<>>
        /\ Len(ing.IngressClassName[1]) >= 9
        /\ SubSeq(ing.IngressClassName[1], 1, 9) = "pangolin-"
  /\ ~(/\ AnnotationEnabled \in DOMAIN ing.Annotations
       /\ ing.Annotations[AnnotationEnabled] \in FalseSpellings)

\* what the unmanaged path leaves: the Get of the Ingress, the List, one
\* Delete and one Deleted event per item listed, and success
TookUnmanagedPath ==
  /\ last.result = "ok"
  /\ \A i \in DOMAIN last.ops : last.ops[i].Kind = "Delete"
  /\ \A i \in DOMAIN last.events : last.events[i].Reason = "Deleted"
  /\ Len(last.events) = Len(last.ops)
  /\ last.calls = 2 + Len(last.ops)
  /\ Owned(store, PassIngress) = {}

C25_ManagedDecision ==
  PassDone => (ManagedAsClaimed(PassIngress) <=> ~TookUnmanagedPath)

\* an Ingress with a class that only resembles pangolin, or disabled in
\* capitals, whose PangolinResources the pass deleted
C25_Witness ==
  /\ PassDone
  /\ \/ PassIngress.IngressClassName = <<"pangolinx">>
     \/ /\ AnnotationEnabled \in DOMAIN PassIngress.Annotations
        /\ PassIngress.Annotations[AnnotationEnabled] = "FALSE"
  /\ TookUnmanagedPath
  /\ last.ops # <<>>

\* an Ingress of class pangolin-eu with the enabled annotation absent, and one
\* of class pangolin with enabled = no, whose PangolinResources the pass created
C25_WitnessManaged ==
  /\ PassDone
  /\ \/ PassIngress.IngressClassName = <<"pangolin-eu">>
     \/ /\ AnnotationEnabled \in DOMAIN PassIngress.Annotations
        /\ PassIngress.Annotations[AnnotationEnabled] = "no"
  /\ \E i \in DOMAIN last.ops : last.ops[i].Kind = "Create"

(***************************************************************************)
(* C23.  The name of the PangolinResource a pass writes for a host is      *)
(* GenerateName of the namespace, the Ingress name and that host, whatever *)
(* the UID, the class and the annotations of the Ingress, the tunnel, and  *)
(* the passes that ran before.                                             *)
(***************************************************************************)
WriteOps == {i \in DOMAIN last.ops : last.ops[i].Kind \in {"Create", "Update"}}

\* the host for which the object was built, read from its display name
HostsBuilt(obj) ==
  {h \in HostUniverse : obj.Spec.Name = IngressNamespace \o "/" \o IngressName \o "/" \o h}

C23_NameOfTriple ==
  PassDone =>
    \A i \in WriteOps :
      /\ Cardinality(HostsBuilt(last.ops[i].Obj)) = 1
      /\ \A h \in HostsBuilt(last.ops[i].Obj) :
            last.ops[i].Obj.Name = GenerateName(IngressNamespace, IngressName, h)

\* an Ingress with the second UID, a tunnel-name annotation and a tunnel of
\* its own, for which the pass created the PangolinResource of HostA
C23_Witness ==
  /\ PassDone
  /\ PassIngress.UID = "uid-2"
  /\ AnnotationTunnelName \in DOMAIN PassIngress.Annotations
  /\ \E i \in WriteOps :
        /\ last.ops[i].Kind = "Create"
        /\ last.ops[i].Obj.Spec.TunnelRef.Name = "custom"
        /\ HostsBuilt(last.ops[i].Obj) = {HostA}

(***************************************************************************)
(* C27.  For a managed Ingress with an existing tunnel and an empty rule   *)
(* list, the pass emits one NoRules warning and no other event, issues no  *)
(* Create, Update or Delete, and returns success without a requeue         *)
(* request.                                                                *)
(***************************************************************************)
ZeroRulesPass ==
  /\ PassDone
  /\ ManagedAsClaimed(PassIngress)
  /\ TunnelPresent(PassIngress)
  /\ PassIngress.Rules = <<>>

Overridden(ing, key) == key \in DOMAIN ing.Annotations /\ ing.Annotations[key] # ""

ExpectedHTTP(ing, host) ==
  [DomainName |-> IF Overridden(ing, AnnotationDomainName)
                  THEN ing.Annotations[AnnotationDomainName] ELSE SplitFor(host).domain,
   Subdomain  |-> IF Overridden(ing, AnnotationSubdomain)
                  THEN ing.Annotations[AnnotationSubdomain] ELSE SplitFor(host).subdomain]

HasExpectedHTTP(obj, ing, host) ==
  /\ obj.Spec.HTTPConfig # <<>>
  /\ obj.Spec.HTTPConfig[1].DomainName = ExpectedHTTP(ing, host).DomainName
  /\ obj.Spec.HTTPConfig[1].Subdomain = ExpectedHTTP(ing, host).Subdomain

C30_OverridePrecedence ==
  PassDone =>
    /\ \A i \in WriteOps : \A h \in HostsBuilt(last.ops[i].Obj) :
          HasExpectedHTTP(last.ops[i].Obj, PassIngress, h)
    /\ ManagedPassOk =>
         \A h \in RuleHosts(PassIngress) :
           Buildable(PassIngress, h) => HasExpectedHTTP(store[KeyFor(PassIngress, h)],
                                                        PassIngress, h)

\* the domain is overridden and the subdomain is derived, for two hosts
C30_Witness ==
  /\ ManagedPassOk
  /\ Overridden(PassIngress, AnnotationDomainName)
  /\ ~Overridden(PassIngress, AnnotationSubdomain)
  /\ Cardinality({h \in RuleHosts(PassIngress) : Buildable(PassIngress, h)}) = 2
  /\ WriteOps # {}

\* the annotation is present and empty: the derived domain is used
C30_WitnessEmpty ==
  /\ ManagedPassOk
  /\ AnnotationDomainName \in DOMAIN PassIngress.Annotations
  /\ PassIngress.Annotations[AnnotationDomainName] = ""
  /\ WriteOps # {}

(***************************************************************************)
(* C26.  resolveTunnel returns the tunnel-name annotation when it is       *)
(* present and not empty; otherwise the configured default tunnel name     *)
(* when the class is pangolin; otherwise, for a class pangolin-<suffix>,   *)
(* what the configured mapping has for <suffix> and, when it has nothing,  *)
(* <suffix>.                                                               *)
(***************************************************************************)
TunnelResolved == probe.fn = "resolveTunnel" /\ probe.out # <<>>

\* the class is pangolin-<suffix>
SuffixOf(ing) ==
  IF /\ ing.IngressClassName # <<>>
     /\ Len(ing.IngressClassName[1]) >= 9
     /\ SubSeq(ing.IngressClassName[1], 1, 9) = "pangolin-"
  THEN <<SubSeq(ing.IngressClassName[1], 10, Len(ing.IngressClassName[1]))>>
  ELSE <<>>

C26_TunnelOrder ==
  TunnelResolved =>
    LET ing == probe.ingress
        out == probe.out[1]
    IN  IF Overridden(ing, AnnotationTunnelName)
        THEN ~out.err /\ out.name = ing.Annotations[AnnotationTunnelName]
        ELSE IF ing.IngressClassName = <<"pangolin">>
        THEN ~out.err /\ out.name = ConfigDefaultTunnelName
        ELSE IF SuffixOf(ing) # <<>>
        THEN /\ ~out.err
             /\ out.name = IF SuffixOf(ing)[1] \in DOMAIN ConfigTunnelMapping
                           THEN ConfigTunnelMapping[SuffixOf(ing)[1]]
                           ELSE SuffixOf(ing)[1]
        ELSE TRUE

\* the annotation wins over a class that has a mapping
C26_Witness ==
  /\ TunnelResolved
  /\ probe.ingress.IngressClassName = <<"pangolin-eu">>
  /\ Overridden(probe.ingress, AnnotationTunnelName)
  /\ probe.out[1].name = "custom"

\* an empty annotation is passed over, and a suffix without a mapping is the name
C26_WitnessSuffix ==
  /\ TunnelResolved
  /\ probe.ingress.IngressClassName = <<"pangolin-us">>
  /\ AnnotationTunnelName \in DOMAIN probe.ingress.Annotations
  /\ probe.out[1].name = "us"

(***************************************************************************)
(* C29.  The priority of the target of a path with a service backend is    *)
(* the smaller of 1000 and 100 + 10 * the length of the path: it lies in   *)
(* 100..1000, is not smaller than that of any path that is not longer, and *)
(* is that of every path of the same length.                               *)
(***************************************************************************)
PriorityApplied == probe.fn = "priority" /\ probe.out # <<>>

PriorityAsClaimed(path) ==
  IF 100 + 10 * Len(path) < 1000 THEN 100 + 10 * Len(path) ELSE 1000

C29_Priority ==
  PriorityApplied =>
    LET priority == probe.out[1].Priority
    IN  /\ Len(probe.out) = 1
        /\ priority = PriorityAsClaimed(probe.path)
        /\ priority \in 100..1000
        /\ \A other \in PathStrings :
              /\ Len(other) <= Len(probe.path) => PriorityOf(other) <= priority
              /\ Len(other) = Len(probe.path) => PriorityOf(other) = priority

\* a path of more than 90 characters: the priority is capped
C29_Witness ==
  /\ PriorityApplied
  /\ Len(probe.path) > 90
  /\ probe.out[1].Priority = 1000

\* a path of 4 characters
C29_WitnessShort ==
  /\ PriorityApplied
  /\ Len(probe.path) = 4
  /\ probe.out[1].Priority = 140

(***************************************************************************)
(* C28.  A pass for a managed Ingress with its tunnel, in which hosts fail *)
(* validation (an empty host, a wildcard host, an IP literal, no valid     *)
(* backend) and no store call fails, returns success without a requeue     *)
(* request, and runs the orphan cleanup: no PangolinResource with the      *)
(* Ingress's UID label is left under a name that the pass did not desire.  *)
(***************************************************************************)
\* a rule of ing fails validation
HasValidationFailure(ing) ==
  \/ EmptyHostRules(ing) # {}
  \/ \E h \in RuleHosts(ing) : ~Buildable(ing, h)

ValidationFailurePass ==
  /\ PassDone
  /\ isManaged(PassIngress)
  /\ TunnelPresent(PassIngress)
  /\ HasValidationFailure(PassIngress)

CleanupDone ==
  Owned(store, PassIngress) \subseteq
    {KeyFor(PassIngress, h) : h \in {g \in RuleHosts(PassIngress) : Buildable(PassIngress, g)}}

C28_ValidationNoRetry ==
  ValidationFailurePass => last.result = "ok" /\ CleanupDone

\* the same for an Ingress with a rule that has a host
C28_ValidationNoRetryWithHost ==
  (ValidationFailurePass /\ RuleHosts(PassIngress) # {}) => last.result = "ok" /\ CleanupDone

\* a wildcard host failed, and the PangolinResource of a removed host was deleted
C28_WitnessWithHost ==
  /\ ValidationFailurePass
  /\ RuleHosts(PassIngress) # {}
  /\ OpsOfKind("Delete") # {}
  /\ EventsWith("InvalidHost") # {}

(***************************************************************************)
(* C24.  Round trip as claimed.  For a managed Ingress whose               *)
(* PangolinResources are converged, the pass after enabled is set to false *)
(* deletes the PangolinResource of every host and leaves the Ingress as it *)
(* is, and the pass after the annotation is removed or set to true leaves  *)
(* PangolinResources with the names and the specs they had.                *)
(***************************************************************************)
\* the names of the PangolinResources of the hosts of the Ingress
RoundTripKeys ==
  {KeyFor(ingresses[RoundTripKey], h) :
     h \in {g \in RuleHosts(ingresses[RoundTripKey]) : Buildable(ingresses[RoundTripKey], g)}}

RoundTripStage(stage) ==
  /\ probe.fn = "roundtrip"
  /\ probe.stage = stage
  /\ probe.converged
  /\ RoundTripKeys # {}

C24_RoundTrip ==
  /\ RoundTripStage("deleted") =>
        /\ \A k \in RoundTripKeys : k \notin DOMAIN store
        /\ ingresses[RoundTripKey] = probe.ingress[1]
  /\ RoundTripStage("recreated") =>
        \A k \in RoundTripKeys :
          /\ k \in DOMAIN probe.snapshot
          /\ k \in DOMAIN store
          /\ store[k].Spec = probe.snapshot[k].Spec

\* the same when the PangolinResources of the hosts all carry the Ingress's
\* UID label after the first pass
RoundTripLabelled ==
  \A k \in RoundTripKeys :
    k \in DOMAIN probe.snapshot => MatchesOwner(probe.snapshot[k], ingresses[RoundTripKey])

C24_RoundTripLabelled == RoundTripLabelled => C24_RoundTrip

\* two PangolinResources were deleted and created again
C24_WitnessLabelled ==
  /\ RoundTripStage("recreated")
  /\ RoundTripLabelled
  /\ Cardinality(RoundTripKeys) = 2
  /\ Cardinality(OpsOfKind("Create")) = 2

(***************************************************************************)
(* C40.  For every Ingress that isManaged accepts, resolveTunnel returns a *)
(* name and no error, so that Reconcile never takes the branch that emits  *)
(* TunnelResolutionFailed; the name is the empty string for the class      *)
(* pangolin- without a tunnel-name annotation.                             *)
(***************************************************************************)
C40_ResolvesWhenManaged ==
  (TunnelResolved /\ isManaged(probe.ingress)) =>
    /\ ~probe.out[1].err
    /\ (probe.ingress.IngressClassName = <<"pangolin-">>
          /\ ~Overridden(probe.ingress, AnnotationTunnelName))
         => probe.out[1].name = ""

\* the class pangolin- is managed and resolves to the empty name
C40_Witness ==
  /\ TunnelResolved
  /\ isManaged(probe.ingress)
  /\ probe.ingress.IngressClassName = <<"pangolin-">>
  /\ probe.out[1] = [err |-> FALSE, name |-> ""]

\* a class that is not managed is the only one resolveTunnel refuses
C40_WitnessRefused ==
  /\ TunnelResolved
  /\ ~isManaged(probe.ingress)
  /\ probe.out[1].err

(***************************************************************************)
(* C37.  The object that an Update of a pass hands to the store is the     *)
(* object that was in the store under that name when the pass fetched it,  *)
(* with the Spec replaced: name, namespace, labels and owner references    *)
(* are those of the fetched object.                                        *)
(***************************************************************************)
\* the object under the name of write i of the last pass, as it was in the
\* store when the write was issued
FetchedFor(i) == ApplyOps(last.before, SubSeq(last.ops, 1, i - 1))[KeyOf(last.ops[i].Obj)]

C37_UpdateOnlySpec ==
  \A i \in OpsOfKind("Update") :
     /\ KeyOf(last.ops[i].Obj) \in DOMAIN ApplyOps(last.before, SubSeq(last.ops, 1, i - 1))
     /\ last.ops[i].Obj = [FetchedFor(i) EXCEPT !.Spec = last.ops[i].Obj.Spec]
     /\ last.ops[i].Obj.Spec # FetchedFor(i).Spec

\* an object without labels and owner reference is updated and keeps neither,
\* where the desired object has both
C37_Witness ==
  \E i \in OpsOfKind("Update") :
     /\ last.ops[i].Obj.Labels = NoAnnotations
     /\ last.ops[i].Obj.OwnerReferences = <<>>
     /\ last.ops[i].Obj.Spec = DesiredFor(PassIngress, HostA).Spec

\* an object that the pass itself created for another host is updated
C37_WitnessOwn ==
  \E i \in OpsOfKind("Update") : \E j \in OpsOfKind("Create") :
     /\ j < i
     /\ last.ops[j].Name = last.ops[i].Name
     /\ last.ops[i].Obj.Labels = last.ops[j].Obj.Labels

(***************************************************************************)
(* C33.  Group order as claimed: for the rule list of an Ingress,          *)
(* collectHostPaths returns the host groups in one order, whatever order   *)
(* the range over hostMap yields the hosts in.                             *)
(***************************************************************************)
\* the host groups that collectHostPaths can return for ing
GroupLists(ing) ==
  {collectHostPaths([events |-> <<>>], ing, order).groups : order \in SeqPerms(HostsOf(ing))}

C33_GroupOrder ==
  \A k \in DOMAIN ingresses : Cardinality(GroupLists(ingresses[k])) = 1

\* the same for the Ingresses whose rules name at most one host
C33_GroupOrderOneHost ==
  \A k \in DOMAIN ingresses :
     Cardinality(HostsOf(ingresses[k])) <= 1 => Cardinality(GroupLists(ingresses[k])) = 1

(***************************************************************************)
(* C34.  Order independence as claimed: the passes for an Ingress that     *)
(* start on one store and in which no store call fails end with the same   *)
(* store (the same PangolinResources with the same specs) and the same     *)
(* number of Created, of Updated and of Deleted events for each name,      *)
(* whatever the order of the host groups.                                  *)
(***************************************************************************)
\* how many events of the pass that ended in fin have the reason and are
\* about the name
EventCount(fin, reason, about) ==
  Cardinality({i \in DOMAIN fin.events : /\ fin.events[i].Reason = reason
                                         /\ fin.events[i].About = about})

SameWriteEvents(fin1, fin2) ==
  \A reason \in {"Created", "Updated", "Deleted"} :
  \A about \in {fin1.events[i].About : i \in DOMAIN fin1.events}
               \cup {fin2.events[i].About : i \in DOMAIN fin2.events} :
     EventCount(fin1, reason, about) = EventCount(fin2, reason, about)

OrderIndependent(req) ==
  \A fin1, fin2 \in PassesFrom(store, req) :
     /\ fin1.store = fin2.store
     /\ SameWriteEvents(fin1, fin2)

C34_OrderIndependent == \A req \in DOMAIN ingresses : OrderIndependent(req)

\* the same for an Ingress whose hosts get pairwise distinct names
C34_OrderIndependentDistinct ==
  \A req \in DOMAIN ingresses : DistinctNames(ingresses[req]) => OrderIndependent(req)

(***************************************************************************)
(* C39.  A pass in which a store call failed (other than with NotFound on  *)
(* the Get of the Ingress or on a Delete) has returned, and has returned   *)
(* an error or a requeue request, not plain success.                       *)
(***************************************************************************)
C39_ErrorsSurface ==
  \A req \in DOMAIN procs :
     procs[req].failed # <<>> =>
       /\ procs[req].pc = "done"
       /\ procs[req].result \in {"error", "requeue"}

\* a Delete of orphan cleanup failed after the pass had written
C39_Witness ==
  \E req \in DOMAIN procs :
     /\ procs[req].failed = <<"delete">>
     /\ isManaged(procs[req].ingress[1])
     /\ procs[req].ops # <<>>
     /\ procs[req].result = "error"

\* every kind of store call has failed in some pass
C39_WitnessKinds ==
  \E req \in DOMAIN procs :
     /\ procs[req].failed = <<"listUnmanaged">>
     /\ procs[req].result = "error"

(***************************************************************************)
(* C32.  TunnelNotFound as claimed: a pass that emitted TunnelNotFound has *)
(* read the list of the tunnels, and no tunnel of the resolved name is in  *)
(* it; a pass whose List of the tunnels failed has returned an error and   *)
(* has not emitted TunnelNotFound.                                         *)
(***************************************************************************)
SaidTunnelNotFound(local) ==
  \E i \in DOMAIN local.events : local.events[i].Reason = "TunnelNotFound"

C32_TunnelNotFoundMeansMissing ==
  \A req \in DOMAIN procs :
     /\ SaidTunnelNotFound(procs[req]) =>
          /\ procs[req].failed = <<>>
          /\ \A t \in tunnels : t.Name # procs[req].tunnelName
     /\ procs[req].failed = <<"tunnel">> =>
          /\ procs[req].result = "error"
          /\ ~SaidTunnelNotFound(procs[req])

(***************************************************************************)
(* C35.  In a pass of a managed Ingress every Delete is issued after every *)
(* Create and Update, when no host group is left to process; and a pass in *)
(* which a Get, Create or Update of a PangolinResource failed has returned *)
(* an error and has issued no Delete.                                      *)
(***************************************************************************)
DeletesOf(local) == {i \in DOMAIN local.ops : local.ops[i].Kind = "Delete"}

WritesOf(local) == {i \in DOMAIN local.ops : local.ops[i].Kind \in {"Create", "Update"}}

C35_WritesBeforeDeletes ==
  \A req \in DOMAIN procs :
     LET local == procs[req]
     IN  (local.ingress # <<>> /\ isManaged(local.ingress[1])) =>
           /\ \A i \in DeletesOf(local) : \A j \in WritesOf(local) : j < i
           /\ (local.pc = "delete" \/ DeletesOf(local) # {}) => local.groups = <<>>
           /\ local.failed \in {<<"get">>, <<"create">>, <<"update">>} =>
                /\ local.pc = "done"
                /\ local.result = "error"
                /\ DeletesOf(local) = {}

\* a pass has created the PangolinResource of a host and then deleted an orphan
C35_Witness ==
  \E req \in DOMAIN procs :
     /\ procs[req].pc = "done"
     /\ procs[req].result = "ok"
     /\ isManaged(procs[req].ingress[1])
     /\ WritesOf(procs[req]) # {}
     /\ DeletesOf(procs[req]) # {}

\* a Create failed, in a pass that leaves an orphan of its Ingress behind
C35_WitnessFailed ==
  \E req \in DOMAIN procs :
     /\ procs[req].failed = <<"create">>
     /\ \E k \in DOMAIN store :
           /\ MatchesOwner(store[k], ingresses[req])
           /\ store[k].Name \notin procs[req].desiredNames

(***************************************************************************)
(* C38.  Deleted events as claimed: every Delete of a pass, each followed  *)
(* by its Deleted event, removed from the store the PangolinResource it    *)
(* names, which was there when the call was made.                          *)
(***************************************************************************)
DeletedEventsOf(local) == {i \in DOMAIN local.events : local.events[i].Reason = "Deleted"}

C38_DeletedWasRemoved ==
  \A req \in DOMAIN procs :
     /\ Cardinality(DeletedEventsOf(procs[req])) = Cardinality(DeletesOf(procs[req]))
     /\ \A i \in DeletesOf(procs[req]) : procs[req].ops[i].Was # <<>>

(***************************************************************************)
(* C31.  Convergence as claimed: if Reconcile is triggered again and again *)
(* then, once the Ingress, the tunnels and the store are left alone, the   *)
(* PangolinResources labelled with the Ingress's UID become, and from then *)
(* on stay, those of the hosts that can be built: of no host when the      *)
(* Ingress is not managed.  An Ingress whose tunnel does not exist is left *)
(* out of the statement.                                                   *)
(***************************************************************************)
ConvergedFor(ing) ==
  IF ~isManaged(ing) THEN LabelledWith(store, ing.UID) = {}
  ELSE IF ~TunnelPresent(ing) THEN TRUE
  ELSE /\ LabelledWith(store, ing.UID) = DesiredKeys(ing)
       /\ \A h \in GroupHosts(ing) :
             Buildable(ing, h) => store[KeyFor(ing, h)].Spec = DesiredFor(ing, h).Spec

Converged == \A k \in DOMAIN ingresses : ConvergedFor(ingresses[k])

\* passes keep ending
Retriggered == []<>(last # NoPass)

C31_Converges == Retriggered => (probe.quiet ~> [](Converged))

\* the same when the Ingress has a host group and every PangolinResource in
\* the store carries a UID label
AllLabelled == \A k \in DOMAIN store : LabelIngressUID \in DOMAIN store[k].Labels

WithGroups == \A k \in DOMAIN ingresses : GroupHosts(ingresses[k]) # {}

C31_ConvergesWithGroups ==
  Retriggered => ((probe.quiet /\ AllLabelled /\ WithGroups) ~> [](Converged))

(***************************************************************************)
(* C36.  Lost backends as claimed: after a successful pass of a managed    *)
(* Ingress with at least one host group, for every host in the rules none  *)
(* of whose paths has a service backend and whose PangolinResource was in  *)
(* the store before the pass, the pass has emitted InvalidHost for the     *)
(* host and deleted that PangolinResource.                                 *)
(***************************************************************************)
\* the PangolinResource of host was in the store before the last pass: the
\* object under the host's name, with the spec name of the host
HadResource(ing, h) ==
  /\ KeyFor(ing, h) \in DOMAIN last.before
  /\ last.before[KeyFor(ing, h)].Spec.Name = DisplayNameOf(ing, h)

LostBackends(ing) ==
  {h \in RuleHosts(ing) : ServicePaths(ing, h) = <<>> /\ HadResource(ing, h)}

DeletedByPass(k) ==
  /\ k \notin DOMAIN store
  /\ \E i \in OpsOfKind("Delete") : KeyOf(last.ops[i].Obj) = k

C36_LostBackends ==
  (ManagedPassOk /\ GroupHosts(PassIngress) # {}) =>
    \A h \in LostBackends(PassIngress) :
       /\ EventsAbout("InvalidHost", h) # {}
       /\ DeletedByPass(KeyFor(PassIngress, h))

\* the same for the PangolinResources that carry the Ingress's UID label
C36_LostBackendsLabelled ==
  (ManagedPassOk /\ GroupHosts(PassIngress) # {}) =>
    \A h \in LostBackends(PassIngress) :
       MatchesOwner(last.before[KeyFor(PassIngress, h)], PassIngress) =>
         /\ EventsAbout("InvalidHost", h) # {}
         /\ DeletedByPass(KeyFor(PassIngress, h))

C36_WitnessLabelled ==
  /\ ManagedPassOk
  /\ \E h \in LostBackends(PassIngress) :
        /\ MatchesOwner(last.before[KeyFor(PassIngress, h)], PassIngress)
        /\ DeletedByPass(KeyFor(PassIngress, h))
====
